---- MODULE Spec2Model ----
(***************************************************************************)
(* State-machine model of the voice/RAG websocket bridges of the backend:  *)
(*   - the mock bridge   app/api/routes/websocket_mock.py   (route /api/ws) *)
(*   - the simple bridge app/api/routes/websocket_simple.py (route /ws)     *)
(* The two routes are served by two independent manager singletons that    *)
(* share no state, so a behaviour exercises one of them; `app` names it.    *)
(*                                                                         *)
(* Scheduling is asyncio's: one coroutine runs until it suspends.  The      *)
(* suspension points modelled are the reads (client receive_text, upstream  *)
(* connect / recv / close); a send to the client or to the upstream is      *)
(* performed as part of the step that reaches it.                           *)
(***************************************************************************)
EXTENDS Integers, Sequences, FiniteSets, TLC

\* ------------------------------------------------------------------ bounds
NumClients == 2      \* client websockets
MaxFrames  == 3      \* mock bridge: client text frames read, all clients together
MaxSimpleFrames == 2 \* simple bridge, one client: client text frames read
MaxUp      == 3      \* simple bridge, one client: envelopes the upstream emits
MaxMultiFrames == 1  \* simple bridge, all clients: client text frames read
MaxMultiUp == 1      \* simple bridge, all clients: envelopes the upstream emits
MaxTurnFrames == 1   \* simple bridge, one client, one turn: client text frames read
MaxWsFrames == 2     \* websocket.py: client frames read and forward_audio calls
MaxWsUp    == 1      \* websocket.py: envelopes the upstream emits
MaxHandlerFrames == 2 \* websocket_handler.py, one client: client frames read
MaxHandlerUp == 2    \* websocket_handler.py, one client: envelopes the upstream emits

WS == 1..NumClients
UP == 1..NumClients  \* upstream sockets: each connect opens at most one

VARIABLES
    app,                  \* "mock" | "simple" | "ws" | "handler": which module's
                          \* manager is exercised
    cfg,                  \* the clients that connect and the budgets of this behaviour
    pc,                   \* [WS -> position of websocket_endpoint(ws)]
    accepted,             \* [WS -> BOOLEAN] websocket.accept() was called
    closeCode,            \* [WS -> close code the server sent to the client, 0 = none]
    requested,            \* [WS -> the subprotocols the client's upgrade request offered]
    clientGone,           \* [WS -> BOOLEAN] the client has disconnected
    sent,                 \* [WS -> Seq(envelope)] envelopes sent to the client, in order
    lastFrame,            \* the client frame read last: [ws, frame], and what
                          \* get_relevant_context returned while it was handled
    nframes,              \* number of client frames read so far
    disconnects,          \* [WS -> number of manager.disconnect(ws) calls made]
    disconnectRaised,     \* a manager.disconnect call raised
    \* --- websocket_mock.MockConnectionManager
    m_active_connections, \* dict ws -> connection record
    m_audio_buffers,      \* dict session_id -> Seq(data)
    m_snapshots,          \* [WS -> Seq(STRING)] the audio_data values commits computed
    m_appended,           \* [WS -> Seq(STRING)] chunks appended since the last snapshot
    m_rag_calls,          \* number of calls into MockRAGService made by handlers
    m_pending,            \* [WS -> Seq(envelope)] sends a suspended handle_message has ahead
    \* --- websocket_simple.ConnectionManager
    active_connections,   \* Seq(ws): the list of accepted client websockets
    openai_connections,   \* dict ws -> upstream socket
    sessions,             \* dict ws -> session id
    fwd,                  \* [WS -> state of the forward_responses task of ws]
    discNext,             \* [WS -> where the endpoint continues after disconnect]
    discDone,             \* [WS -> BOOLEAN] a disconnect(ws) call has completed
    fwdLate,              \* [WS -> sends by forward_responses after disconnect completed]
    opened,               \* [WS -> upstream socket websockets.connect returned, 0 = none]
    \* --- websocket.ConnectionManager and websocket_endpoint
    w_active_connections, \* Seq(ws): the list of accepted client websockets
    openai_ws_connections,\* dict ws -> upstream socket
    session_ids,          \* dict ws -> session id
    response_task,        \* [WS -> state of the handle_openai_responses task of ws]
    \* --- websocket_handler.WebSocketHandler
    h_active_connections, \* Seq(ws): the list of accepted client websockets
    to_client_task,       \* [WS -> state of the forward_to_client coroutine of ws]
    to_openai_task,       \* [WS -> state of the inner forward_to_openai coroutine of ws]
    \* --- the upstream sockets (websockets client connections)
    upQ,                  \* [UP -> Seq(envelope)] received, not yet taken by recv()
    upWaiter,             \* [UP -> "none" | "ep" | "fwd"] the coroutine suspended in recv()
    upRemoteClosed,       \* [UP -> BOOLEAN] the upstream service closed or failed
    upCloseCalls,         \* [UP -> number of close() calls by the bridge]
    upSent,               \* [UP -> Seq(envelope)] envelopes the bridge sent upstream
    upRecv,               \* [UP -> Seq([env, by])] envelopes recv() returned, in order
    nUp                   \* number of envelopes the upstream service has emitted

mockVars == <<m_active_connections, m_audio_buffers, m_snapshots, m_appended, m_rag_calls,
              m_pending>>
commonVars == <<app, cfg, pc, accepted, closeCode, requested, clientGone, sent, lastFrame, nframes,
                disconnects, disconnectRaised>>
simpleVars == <<active_connections, openai_connections, sessions, fwd, discNext,
                discDone, fwdLate, opened>>
wsVars == <<w_active_connections, openai_ws_connections, session_ids, response_task>>
handlerVars == <<h_active_connections, to_client_task, to_openai_task>>
upVars == <<upQ, upWaiter, upRemoteClosed, upCloseCalls, upSent, upRecv, nUp>>
vars == <<commonVars, mockVars, simpleVars, wsVars, handlerVars, upVars>>

\* ------------------------------------------------------------ dictionaries
EmptyDict == [k \in {} |-> 0]
DictSet(d, k, v) == [x \in DOMAIN d \cup {k} |-> IF x = k THEN v ELSE d[x]]
DictDel(d, k) == [x \in DOMAIN d \ {k} |-> d[x]]
DictGet(d, k, default) == IF k \in DOMAIN d THEN d[k] ELSE default

\* JSON values carried in a `data` field: strings (base64 audio) and a number.
Str(s) == [k |-> "str", s |-> s]
Num(s) == [k |-> "num", s |-> s]
DataValues == {Str("AAA"), Str("BBB"), Str(""), Num("7")}

\* Client text frames: text that is not JSON, JSON that is not an object, or an
\* object (a dict).
InvalidJson == [json |-> "invalid"]
NonObject   == [json |-> "nonobject"]
Obj(m)      == [json |-> "object", msg |-> m]
Read(ws, frame, context) == [ws |-> ws, frame |-> frame, context |-> context]
NoFrame     == Read(0, [json |-> "none"], <<>>)

\* The subprotocols offered by a client's upgrade request (the
\* sec-websocket-protocol header split at commas and stripped; the ASGI scope's
\* "subprotocols" list): the list of tokens, empty when there is no header.
NoHeader == <<>>
Headers == {NoHeader, <<"chat">>, <<"realtime">>, <<"chat", "realtime">>}

\* The protocol test of connect (simple lines 29-33, mock lines 20-21).
AcceptsAnyProtocol(header) == TRUE
HasRealtime(header) == \E i \in 1..Len(header) : header[i] = "realtime"

\* =========================================================================
\*  websocket_mock.py
\* =========================================================================

\* f"mock_session_{id(websocket)}"
MockSessionIdShared(ws) == <<"mock_session", 0>>
MockSessionId(ws) == <<"mock_session", ws>>

DefaultOutputFormatWav ==
    [type |-> "audio", format |-> "wav", sample_rate |-> 16000, channels |-> 2]
DefaultOutputFormat ==
    [type |-> "audio", format |-> "pcm_16", sample_rate |-> 24000, channels |-> 1]

\* output_format values a client supplies in session.update
FormatInputs ==
    { [type |-> "audio", format |-> "wav", sample_rate |-> 16000, channels |-> 2],
      [sample_rate |-> 16000],
      EmptyDict }

MockMsgs ==
    {[type |-> "session.update", output_format |-> f] : f \in FormatInputs}
    \cup {[type |-> "session.update"]}
    \cup {[type |-> "input_audio_buffer.append", data |-> d] : d \in DataValues}
    \cup {[type |-> "input_audio_buffer.append"]}
    \cup {[type |-> "input_audio_buffer.commit"]}
    \cup {[type |-> "conversation.item.create", content |-> <<[content |-> "What is X?"]>>],
          [type |-> "conversation.item.create", content |-> <<>>],
          [type |-> "conversation.item.create"]}
    \cup {[type |-> "unknown.type"]}

MockFrames == {NonObject} \cup {Obj(m) : m \in MockMsgs}

\* MockRAGService.get_mock_audio: the precomputed base64 tone
get_mock_audio == "MOCK_AUDIO"

\* MockRAGService.enhance_message_with_context
mock_enhance_none(message) == message
mock_enhance_message_with_context(message) ==
    "Context: This is a mock context from the RAG service.\nUser message: " \o message

\* "".join(chunks): defined when every element is a string
RECURSIVE Join(_)
Join(chunks) ==
    IF chunks = <<>> THEN "" ELSE Head(chunks).s \o Join(Tail(chunks))

AllStrings(chunks) == \A i \in 1..Len(chunks) : chunks[i].k = "str"

\* self.audio_buffers[session_id].append(message_data["data"])
BufferAppendFront(buf, d) == <<d>> \o buf
BufferAppendTwice(buf, d) == buf \o <<d, d>>
BufferAppend(buf, d) == Append(buf, d)

\* self.audio_buffers[session_id] = []   (line 110)
BufferKeep(buf) == buf
BufferClear(buf) == <<>>

\* The test of line 107: the session has buffered audio.
CommitAlways(bufs, sid) == sid \in DOMAIN bufs
CommitHasAudio(bufs, sid) == sid \in DOMAIN bufs /\ bufs[sid] # <<>>

MockErrorEnv(kind) == [type |-> "error", message |-> kind]

\* The response.create / response.completed pair (lines 118-149 and 175-201);
\* output_format["format"] etc. raise KeyError when the stored dict lacks a key.
MockResponse(conn, sid) ==
    LET output_format == DictGet(conn, "output_format", DefaultOutputFormat)
    IN  IF {"format", "sample_rate", "channels"} \subseteq DOMAIN output_format
        THEN << [type |-> "response.create", session |-> sid,
                 format |-> output_format.format,
                 sample_rate |-> output_format.sample_rate,
                 channels |-> output_format.channels,
                 data |-> get_mock_audio,
                 output_format |-> output_format],
                [type |-> "response.completed", session |-> sid] >>
        ELSE << MockErrorEnv("KeyError") >>

MockResult(conn, bufs, out, snap, rag) ==
    [conn |-> conn, bufs |-> bufs, out |-> out, snap |-> snap, rag |-> rag]

handle_message_strict(conn, bufs, frame) ==
    MockResult(conn, bufs, <<MockErrorEnv("unhandled")>>, <<>>, 0)

\* MockConnectionManager.handle_message for a decoded frame, as a function of the
\* connection record and the buffers: the new record and buffers, the envelopes
\* sent to the client, the audio_data computed, and the number of rag_service calls.
handle_message(conn, bufs, frame) ==
    LET sid == conn.session_id IN
    IF frame.json # "object"
    THEN \* message_data.get raises AttributeError, caught at line 204
         MockResult(conn, bufs, <<MockErrorEnv("AttributeError")>>, <<>>, 0)
    ELSE
    LET msg == frame.msg
        message_type == msg.type
    IN
    CASE message_type = "session.update" ->
            LET output_format == DictGet(msg, "output_format", EmptyDict)
            IN  MockResult(DictSet(conn, "output_format", output_format), bufs,
                           << [type |-> "session.update.ack", session |-> sid,
                               output_format |-> output_format] >>, <<>>, 0)
      [] message_type = "input_audio_buffer.append" ->
            LET buf0 == DictGet(bufs, sid, <<>>)
                bufs1 == IF "data" \in DOMAIN msg
                         THEN DictSet(bufs, sid, BufferAppend(buf0, msg.data))
                         ELSE bufs
            IN  MockResult(conn, bufs1,
                           << [type |-> "input_audio_buffer.append.ack", session |-> sid] >>,
                           <<>>, 0)
      [] message_type = "input_audio_buffer.commit" ->
            IF CommitHasAudio(bufs, sid)
            THEN IF ~AllStrings(bufs[sid])
                 THEN \* "".join raises TypeError before the buffer is cleared
                      MockResult(conn, bufs, <<MockErrorEnv("TypeError")>>, <<>>, 0)
                 ELSE LET audio_data == Join(bufs[sid])
                          bufs1 == DictSet(bufs, sid, BufferClear(bufs[sid]))
                      IN  MockResult(conn, bufs1,
                                     << [type |-> "input_audio_buffer.commit.ack",
                                         session |-> sid] >> \o MockResponse(conn, sid),
                                     <<audio_data>>, 2)
            ELSE MockResult(conn, bufs, <<>>, <<>>, 0)
      [] message_type = "conversation.item.create" ->
            IF "content" \in DOMAIN msg /\ msg.content = <<>>
            THEN \* [][0] raises IndexError
                 MockResult(conn, bufs, <<MockErrorEnv("IndexError")>>, <<>>, 0)
            ELSE LET content == IF "content" \in DOMAIN msg THEN msg.content[1] ELSE EmptyDict
                     c1 == DictGet(content, "content", "")
                     text == IF c1 # "" THEN c1 ELSE DictGet(content, "text", "")
                     enhanced_message == mock_enhance_message_with_context(text)
                 IN  MockResult(conn, bufs,
                                << [type |-> "conversation.item.created", session |-> sid,
                                    text |-> enhanced_message] >> \o MockResponse(conn, sid),
                                <<>>, 2)
      [] OTHER -> MockResult(conn, bufs, <<>>, <<>>, 0)

\* MockConnectionManager.disconnect, on the two registries; `raised` tells
\* whether the call raised.
MockDisconnectKeepBuffer(active, bufs, ws) ==
    [active |-> DictDel(active, ws), bufs |-> bufs, raised |-> FALSE]
MockDisconnect(active, bufs, ws) ==
    IF ws \in DOMAIN active
    THEN [active |-> DictDel(active, ws),
          bufs |-> DictDel(bufs, active[ws].session_id), raised |-> FALSE]
    ELSE [active |-> active, bufs |-> bufs, raised |-> FALSE]

\* The ghost of the chunks a client appended since the last snapshot.
MockAppended(appended, frame, res) ==
    IF res.snap # <<>> THEN <<>>
    ELSE IF frame.json = "object" /\ frame.msg.type = "input_audio_buffer.append"
            /\ "data" \in DOMAIN frame.msg
         THEN Append(appended, frame.msg.data)
         ELSE appended

\* MockConnectionManager.connect (lines 17-58), entered from websocket_endpoint.
MockConnect(ws) ==
    /\ app = "mock" /\ ws \in cfg.clients /\ pc[ws] = "new"
    /\ \E header \in Headers :
         /\ requested' = [requested EXCEPT ![ws] = header]
         /\ IF ~HasRealtime(header)
            THEN \* close(code=4000), nothing registered
                 /\ closeCode' = [closeCode EXCEPT ![ws] = 4000]
                 /\ UNCHANGED <<accepted, sent, m_active_connections, m_audio_buffers>>
            ELSE LET session_id == MockSessionId(ws) IN
                 /\ accepted' = [accepted EXCEPT ![ws] = TRUE]
                 /\ m_active_connections' =
                        DictSet(m_active_connections, ws, [session_id |-> session_id])
                 /\ m_audio_buffers' = DictSet(m_audio_buffers, session_id, <<>>)
                 /\ sent' = [sent EXCEPT ![ws] = @ \o
                        << [type |-> "connection_established", protocol |-> "realtime"],
                           [type |-> "session.create.ack", session |-> session_id] >>]
                 /\ UNCHANGED closeCode
    /\ pc' = [pc EXCEPT ![ws] = "loop"]
    /\ UNCHANGED <<wsVars, handlerVars, app, cfg, clientGone, lastFrame, nframes, disconnects, disconnectRaised,
                   m_snapshots, m_appended, m_rag_calls, m_pending, simpleVars, upVars>>

\* The finally clause of websocket_endpoint: manager.disconnect(websocket).
MockFinally(ws) ==
    LET d == MockDisconnect(m_active_connections, m_audio_buffers, ws) IN
    /\ m_active_connections' = d.active
    /\ m_audio_buffers' = d.bufs
    /\ disconnects' = [disconnects EXCEPT ![ws] = @ + 1]
    /\ disconnectRaised' = (disconnectRaised \/ d.raised)
    /\ pc' = [pc EXCEPT ![ws] = "done"]

\* One iteration of the receive loop (lines 217-224) on a frame that decodes:
\* json.loads, then handle_message.
MockRecvFrame(ws) ==
    /\ app = "mock" /\ pc[ws] = "loop" /\ accepted[ws] /\ nframes < cfg.maxFrames
    /\ m_pending[ws] = <<>>
    /\ \E frame \in MockFrames :
         LET sid == m_active_connections[ws].session_id
             res == handle_message(m_active_connections[ws], m_audio_buffers, frame)
         IN  /\ m_active_connections' = DictSet(m_active_connections, ws, res.conn)
             /\ m_audio_buffers' = res.bufs
             /\ sent' = [sent EXCEPT ![ws] = @ \o res.out]
             /\ m_snapshots' = [m_snapshots EXCEPT ![ws] = @ \o res.snap]
             /\ m_appended' = [m_appended EXCEPT ![ws] = MockAppended(@, frame, res)]
             /\ m_rag_calls' = m_rag_calls + res.rag
             /\ lastFrame' = Read(ws, frame, <<>>)
    /\ nframes' = nframes + 1
    /\ UNCHANGED m_pending
    /\ UNCHANGED <<wsVars, handlerVars, app, cfg, pc, accepted, closeCode, requested, clientGone, disconnects, disconnectRaised,
                   simpleVars, upVars>>

\* One iteration on a text frame that is not JSON: json.loads raises inside the
\* loop's try, the except at line 222 breaks, the finally disconnects.
MockRecvInvalid(ws) ==
    /\ app = "mock" /\ pc[ws] = "loop" /\ accepted[ws] /\ nframes < cfg.maxFrames
    /\ m_pending[ws] = <<>>
    /\ lastFrame' = Read(ws, InvalidJson, <<>>)
    /\ nframes' = nframes + 1
    /\ MockFinally(ws)
    /\ UNCHANGED <<wsVars, handlerVars, app, cfg, accepted, closeCode, requested, clientGone, sent,
                   m_snapshots, m_appended, m_rag_calls, m_pending, simpleVars, upVars>>

\* receive_text raises: the client disconnected, or the socket was never
\* accepted; break, then the finally disconnects.
MockRecvError(ws) ==
    /\ app = "mock" /\ pc[ws] = "loop" /\ m_pending[ws] = <<>>
    /\ clientGone' = [clientGone EXCEPT ![ws] = accepted[ws]]
    /\ MockFinally(ws)
    /\ UNCHANGED <<wsVars, handlerVars, app, cfg, accepted, closeCode, requested, sent, lastFrame, nframes,
                   m_snapshots, m_appended, m_rag_calls, m_pending, simpleVars, upVars>>

\* One iteration of the receive loop with handle_message suspending at each
\* of its sends: the step up to the first `await websocket.send_json`.  Every
\* write of handle_message to the registries precedes its first send (lines
\* 80, 95, 110).
MockHandleStart(ws) ==
    /\ app = "mock" /\ pc[ws] = "loop" /\ accepted[ws] /\ nframes < cfg.maxFrames
    /\ m_pending[ws] = <<>>
    /\ \E frame \in MockFrames :
         LET res == handle_message(m_active_connections[ws], m_audio_buffers, frame)
         IN  /\ m_active_connections' = DictSet(m_active_connections, ws, res.conn)
             /\ m_audio_buffers' = res.bufs
             /\ m_pending' = [m_pending EXCEPT ![ws] = res.out]
             /\ m_snapshots' = [m_snapshots EXCEPT ![ws] = @ \o res.snap]
             /\ m_appended' = [m_appended EXCEPT ![ws] = MockAppended(@, frame, res)]
             /\ m_rag_calls' = m_rag_calls + res.rag
             /\ lastFrame' = Read(ws, frame, <<>>)
    /\ nframes' = nframes + 1
    /\ UNCHANGED <<wsVars, handlerVars, app, cfg, pc, accepted, closeCode, requested, clientGone, sent,
                   disconnects, disconnectRaised, simpleVars, upVars>>

\* handle_message resumes and performs its next send.
MockHandleSend(ws) ==
    /\ app = "mock" /\ pc[ws] = "loop" /\ m_pending[ws] # <<>>
    /\ sent' = [sent EXCEPT ![ws] = Append(@, Head(m_pending[ws]))]
    /\ m_pending' = [m_pending EXCEPT ![ws] = Tail(@)]
    /\ UNCHANGED <<wsVars, handlerVars, app, cfg, pc, accepted, closeCode, requested, clientGone, lastFrame,
                   nframes, disconnects, disconnectRaised, m_active_connections,
                   m_audio_buffers, m_snapshots, m_appended, m_rag_calls,
                   simpleVars, upVars>>

\* The mock bridge with the handlers of different sessions interleaving at
\* their sends.
MockAwaitNext ==
    \E ws \in WS :
        \/ MockConnect(ws)
        \/ MockHandleStart(ws)
        \/ MockHandleSend(ws)
        \/ MockRecvInvalid(ws)
        \/ MockRecvError(ws)

MockNext ==
    \E ws \in WS :
        \/ MockConnect(ws)
        \/ MockRecvFrame(ws)
        \/ MockRecvInvalid(ws)
        \/ MockRecvError(ws)

\* =========================================================================
\*  websocket_simple.py
\* =========================================================================

SeqContains(s, x) == \E i \in 1..Len(s) : s[i] = x

\* list.remove(x): drops the first occurrence
RECURSIVE SeqRemove(_, _)
SeqRemove(s, x) ==
    IF s = <<>> THEN <<>>
    ELSE IF Head(s) = x THEN Tail(s) ELSE <<Head(s)>> \o SeqRemove(Tail(s), x)

\* Envelope types the upstream service emits, by how the bridge treats them.
UpTypes == {"session.created", "response.create", "response.completed", "error"}
\* ... and the types websocket.py tells apart (lines 312-336).
WsUpTypes == {"error", "audio", "text", "session.created", "response.end"}

\* The upstream connection is no longer open: send() raises, and recv() raises
\* once the queue is empty.
UpClosed(u) == upRemoteClosed[u] \/ upCloseCalls[u] > 0

\* The session id carried by the session.created envelope of upstream socket u.
SimpleSessionId(u) == "sess_" \o ToString(u)

\* Client-bound envelopes: built by the bridge (send_json), or an upstream
\* envelope passed on as received (send_text(response)).
BridgeEnv(type, detail) == [src |-> "bridge", type |-> type, detail |-> detail]
Forwarded(m) == [src |-> "upstream", type |-> m.type, id |-> m.id]

RECURSIVE ForwardedAll(_)
ForwardedAll(q) ==
    IF q = <<>> THEN <<>> ELSE <<Forwarded(Head(q))>> \o ForwardedAll(Tail(q))

RecvBy(q, by) == [i \in 1..Len(q) |-> [env |-> q[i], by |-> by]]

\* Whether websocket.send_* to ws returns normally: always while the client is
\* connected; once it is gone the send either is dropped or raises.
SendOutcomes(ws) == IF clientGone[ws] THEN {TRUE, FALSE} ELSE {TRUE}

\* The socket websockets.connect returns: a new object on every call.
NewUpstreamShared ==
    IF DOMAIN openai_connections # {}
    THEN openai_connections[CHOOSE w \in DOMAIN openai_connections : TRUE]
    ELSE 1 + Cardinality({w \in WS : opened[w] # 0})
NewUpstream == 1 + Cardinality({w \in WS : opened[w] # 0})

\* self.active_connections.append(websocket)   (line 39)
RegisterNothing(active, ws) == active
Register(active, ws) == Append(active, ws)

\* ConnectionManager.disconnect up to its await of close(): the registries after
\* it, the upstream socket close() is called on (0: none), whether it raised.
disconnect_unguarded(active, openai, sess, ws) ==
    IF SeqContains(active, ws)
    THEN IF ws \in DOMAIN openai
         THEN [active |-> SeqRemove(active, ws), sessions |-> sess,
               close |-> openai[ws], raised |-> FALSE]
         ELSE [active |-> SeqRemove(active, ws), sessions |-> DictDel(sess, ws),
               close |-> 0, raised |-> FALSE]
    ELSE [active |-> active, sessions |-> sess, close |-> 0, raised |-> TRUE]
disconnect_no_close(active, openai, sess, ws) ==
    IF SeqContains(active, ws)
    THEN [active |-> SeqRemove(active, ws), sessions |-> DictDel(sess, ws),
          close |-> 0, raised |-> FALSE]
    ELSE [active |-> active, sessions |-> sess, close |-> 0, raised |-> FALSE]
disconnect_begin(active, openai, sess, ws) ==
    IF SeqContains(active, ws)
    THEN IF ws \in DOMAIN openai
         THEN [active |-> SeqRemove(active, ws), sessions |-> sess,
               close |-> openai[ws], raised |-> FALSE]
         ELSE [active |-> SeqRemove(active, ws), sessions |-> DictDel(sess, ws),
               close |-> 0, raised |-> FALSE]
    ELSE [active |-> active, sessions |-> sess, close |-> 0, raised |-> FALSE]

\* `await self.disconnect(websocket)` reached by the endpoint coroutine of ws,
\* which then continues at `next`; sess is the value of self.sessions then.
\* The coroutine suspends in close() when an upstream socket is closed.
CallDisconnect(ws, next, sess) ==
    LET d == disconnect_begin(active_connections, openai_connections, sess, ws) IN
    /\ active_connections' = d.active
    /\ sessions' = d.sessions
    /\ disconnects' = [disconnects EXCEPT ![ws] = @ + 1]
    /\ disconnectRaised' = (disconnectRaised \/ d.raised)
    /\ IF d.close # 0
       THEN /\ upCloseCalls' = [upCloseCalls EXCEPT ![d.close] = @ + 1]
            /\ pc' = [pc EXCEPT ![ws] = "disc"]
            /\ discNext' = [discNext EXCEPT ![ws] = next]
            /\ UNCHANGED discDone
       ELSE /\ pc' = [pc EXCEPT ![ws] = next]
            /\ discDone' = [discDone EXCEPT ![ws] = TRUE]
            /\ UNCHANGED <<upCloseCalls, discNext>>

\* The endpoint coroutine of ws continues at `next` without calling disconnect.
Goto(ws, next) ==
    /\ pc' = [pc EXCEPT ![ws] = next]
    /\ UNCHANGED <<active_connections, disconnects, disconnectRaised, upCloseCalls,
                   discNext, discDone>>

\* disconnect after close() returned (lines 147-150).
DisconnectFinish(ws) ==
    /\ app = "simple" /\ pc[ws] = "disc"
    /\ openai_connections' = DictDel(openai_connections, ws)
    /\ sessions' = DictDel(sessions, ws)
    /\ discDone' = [discDone EXCEPT ![ws] = TRUE]
    /\ pc' = [pc EXCEPT ![ws] = discNext[ws]]
    /\ discNext' = [discNext EXCEPT ![ws] = "none"]
    /\ UNCHANGED <<wsVars, handlerVars, app, cfg, accepted, closeCode, requested, clientGone, sent, lastFrame, nframes,
                   disconnects, disconnectRaised, mockVars, active_connections, fwd,
                   fwdLate, opened, upVars>>

\* ConnectionManager.connect up to `await websockets.connect(...)` (lines 26-45).
SimpleConnect(ws) ==
    /\ app = "simple" /\ ws \in cfg.clients /\ pc[ws] = "new"
    /\ \E header \in Headers :
         /\ requested' = [requested EXCEPT ![ws] = header]
         /\ IF ~HasRealtime(header)
            THEN \* close(code=1002) and return; the endpoint enters its loop
                 /\ closeCode' = [closeCode EXCEPT ![ws] = 1002]
                 /\ pc' = [pc EXCEPT ![ws] = "recv"]
                 /\ UNCHANGED <<accepted, active_connections>>
            ELSE /\ accepted' = [accepted EXCEPT ![ws] = TRUE]
                 /\ active_connections' = Register(active_connections, ws)
                 /\ pc' = [pc EXCEPT ![ws] = "c_open"]
                 /\ UNCHANGED closeCode
    /\ UNCHANGED <<wsVars, handlerVars, app, cfg, clientGone, sent, lastFrame, nframes, disconnects,
                   disconnectRaised, mockVars, openai_connections, sessions, fwd,
                   discNext, discDone, fwdLate, opened, upVars>>

\* connect, from the return of websockets.connect to `await openai_websocket.recv()`
\* (lines 45-64), with the handler of line 128 when something raises.
SimpleUpstreamOpen(ws) ==
    /\ app = "simple" /\ pc[ws] = "c_open"
    /\ \E success \in BOOLEAN, ok \in SendOutcomes(ws) :
         IF success
         THEN LET u == NewUpstream IN
              /\ openai_connections' = DictSet(openai_connections, ws, u)
              /\ opened' = [opened EXCEPT ![ws] = u]
              /\ IF ok
                 THEN /\ sent' = [sent EXCEPT ![ws] = Append(@,
                              BridgeEnv("connection_established", "realtime"))]
                      /\ upWaiter' = [upWaiter EXCEPT ![u] = "ep"]
                      /\ Goto(ws, "c_ack")
                 ELSE \* send_json raises, so does the one of line 130: line 137
                      /\ Goto(ws, "recv")
                      /\ UNCHANGED <<sent, upWaiter>>
              /\ UNCHANGED sessions
         ELSE /\ UNCHANGED <<openai_connections, opened, upWaiter>>
              /\ IF ok
                 THEN /\ sent' = [sent EXCEPT ![ws] = Append(@,
                              BridgeEnv("error", "Failed to establish OpenAI connection"))]
                      /\ CallDisconnect(ws, "recv", sessions)
                 ELSE /\ Goto(ws, "recv")
                      /\ UNCHANGED <<sent, sessions>>
    /\ UNCHANGED <<wsVars, handlerVars, app, cfg, accepted, closeCode, requested, clientGone, lastFrame, nframes, mockVars,
                   fwd, fwdLate, upQ, upRemoteClosed, upSent, upRecv, nUp>>

SessionConfig ==
    [type |-> "session.update",
     output_format |-> [type |-> "audio", format |-> "pcm_16",
                        sample_rate |-> 24000, channels |-> 1],
     tools |-> <<[type |-> "text-to-speech", model |-> "tts-1", voice |-> "alloy"]>>]

\* connect, from the return of the handshake recv() to its end (lines 64-135).
SimpleHandshakeAck(ws) ==
    /\ app = "simple" /\ pc[ws] = "c_ack"
    /\ LET u == openai_connections[ws] IN
       /\ upQ[u] # <<>> \/ UpClosed(u)
       /\ upWaiter' = [upWaiter EXCEPT ![u] = "none"]
       /\ \E ok \in SendOutcomes(ws) :
            LET Fail(sess) ==
                    \* the handler of line 128: error envelope, then disconnect
                    IF ok
                    THEN /\ sent' = [sent EXCEPT ![ws] = Append(@,
                                 BridgeEnv("error", "Failed to establish OpenAI connection"))]
                         /\ CallDisconnect(ws, "recv", sess)
                    ELSE /\ sessions' = sess
                         /\ Goto(ws, "recv")
                         /\ UNCHANGED sent
            IN
            IF upQ[u] = <<>>
            THEN \* recv() raises ConnectionClosed
                 /\ Fail(sessions)
                 /\ UNCHANGED <<upQ, upRecv, upSent, fwd>>
            ELSE LET m == Head(upQ[u]) IN
                 /\ upQ' = [upQ EXCEPT ![u] = Tail(@)]
                 /\ upRecv' = [upRecv EXCEPT ![u] = Append(@, [env |-> m, by |-> "connect"])]
                 /\ IF m.type = "session.created"
                    THEN LET sess1 == DictSet(sessions, ws, SimpleSessionId(u)) IN
                         IF UpClosed(u)
                         THEN \* openai_websocket.send(session_config) raises
                              /\ Fail(sess1)
                              /\ UNCHANGED <<upSent, fwd>>
                         ELSE /\ upSent' = [upSent EXCEPT ![u] = Append(@, SessionConfig)]
                              /\ fwd' = [fwd EXCEPT ![ws] = "created"]
                              /\ sessions' = sess1
                              /\ sent' = [sent EXCEPT ![ws] =
                                     IF ok THEN Append(@, BridgeEnv("session.created",
                                                                    SimpleSessionId(u)))
                                     ELSE @]
                              /\ Goto(ws, "recv")
                    ELSE /\ Goto(ws, "recv")
                         /\ UNCHANGED <<sessions, sent, upSent, fwd>>
    /\ UNCHANGED <<wsVars, handlerVars, app, cfg, accepted, closeCode, requested, clientGone, lastFrame, nframes, mockVars,
                   openai_connections, fwdLate, opened, upRemoteClosed, nUp>>

\* ------------------------------------------------- RAGService (retrieval)
\* Results of RAGService.get_relevant_context: nothing (an empty store, or the
\* search raised and [] was returned) or passages.
Passages ==
    { <<>>,
      <<[content |-> "X is a thing.", metadata |-> [source |-> "doc.txt"]]>> }

RECURSIVE FormatItems(_, _)
FormatItems(context, idx) ==
    IF context = <<>> THEN ""
    ELSE LET item == Head(context) IN
         ToString(idx) \o ". " \o item.content \o "\n"
         \o (IF DOMAIN item.metadata # {}
             THEN "Source: " \o DictGet(item.metadata, "source", "Unknown") \o "\n"
             ELSE "")
         \o "\n" \o FormatItems(Tail(context), idx + 1)

\* RAGService.format_context_for_prompt
format_context_for_prompt(context) ==
    IF context = <<>> THEN ""
    ELSE "Here is some relevant information:\n\n" \o FormatItems(context, 1)

\* The first user message item's text (rag_service lines 88-92), "" if none.
UserMessage(message_data) ==
    LET content == DictGet(message_data, "content", <<>>)
        users == {i \in 1..Len(content) :
                     /\ DictGet(content[i], "role", "") = "user"
                     /\ DictGet(content[i], "type", "") = "message"}
        first == CHOOSE i \in users : \A j \in users : i <= j
    IN  IF users = {} THEN "" ELSE DictGet(content[first], "content", "")

\* RAGService.enhance_message_with_context; `context` is what
\* get_relevant_context returns for the user message.
enhance_message_always(message_data, context) ==
    LET content == DictGet(message_data, "content", <<>>)
    IN  DictSet(message_data, "content",
            << [type |-> "message", role |-> "system",
                content |-> format_context_for_prompt(context)] >> \o content)
enhance_message_appended(message_data, context) ==
    LET content == DictGet(message_data, "content", <<>>)
    IN  IF UserMessage(message_data) = "" \/ context = <<>>
        THEN message_data
        ELSE DictSet(message_data, "content",
                 Append(content, [type |-> "message", role |-> "system",
                                  content |-> format_context_for_prompt(context)]))
enhance_message_with_context(message_data, context) ==
    LET content == DictGet(message_data, "content", <<>>)
        user_message == UserMessage(message_data)
    IN  IF user_message = "" \/ context = <<>>
        THEN message_data
        ELSE DictSet(message_data, "content",
                 << [type |-> "message", role |-> "system",
                     content |-> "Use the following context to help answer the user's question:\n\n"
                                 \o format_context_for_prompt(context)] >> \o content)

\* ------------------------------------------------------ client frames
UserItem == [type |-> "message", role |-> "user", content |-> "What is X?"]
AssistantItem == [type |-> "message", role |-> "assistant", content |-> "Hello"]
ClientSession == [id |-> "client_session"]

SimpleRequests ==
    { [type |-> "conversation.item.create", content |-> <<AssistantItem, UserItem>>],
      [type |-> "conversation.item.create", content |-> <<UserItem>>,
       session |-> ClientSession],
      [type |-> "conversation.item.create"],
      [type |-> "response.create"],
      [type |-> "response.create", session |-> ClientSession] }
SimpleOthers == { [type |-> "ping"], [type |-> "unknown.type"] }

\* The envelope the endpoint sends upstream for a request (lines 202-207, 231-249).
UpstreamRequest(msg, session_id, context) ==
    LET message_data == IF "session" \in DOMAIN msg THEN msg
                        ELSE DictSet(msg, "session", [id |-> session_id])
    IN  IF msg.type = "conversation.item.create"
        THEN enhance_message_with_context(message_data, context)
        ELSE [type |-> "response.create", session |-> message_data.session,
              output_format |-> SessionConfig.output_format,
              tools |-> SessionConfig.tools]

\* ConnectionManager.send_message's envelope (lines 156-164).
SendMessageEnv(message, session_id) ==
    [type |-> "conversation.item.create", session |-> [id |-> session_id],
     content |-> <<[type |-> "message", role |-> "user", content |-> message]>>]

IsTerminalNever(m) == FALSE
IsTerminal(m) == m.type \in {"response.completed", "error"}

\* Position of the first envelope of q that ends an inline response loop, or 0.
FirstTerminal(q) ==
    IF \E i \in 1..Len(q) : IsTerminal(q[i])
    THEN CHOOSE i \in 1..Len(q) : IsTerminal(q[i]) /\ \A j \in 1..(i - 1) : ~IsTerminal(q[j])
    ELSE 0

\* The envelopes a reader passes on to the client, in the order it read them.
ForwardReversed(taken) == [i \in 1..Len(taken) |-> Forwarded(taken[Len(taken) + 1 - i])]
ForwardInOrder(taken) == ForwardedAll(taken)

\* The inline response loop of the endpoint (lines 209-224 and 251-266), run
\* until it breaks or suspends in recv().  firstCall: the loop is being entered.
InlineLoop(ws, u, ok, firstCall) ==
    IF firstCall /\ upWaiter[u] = "fwd"
    THEN \* forward_responses is suspended in recv(): recv() raises RuntimeError
         /\ sent' = [sent EXCEPT ![ws] = Append(@, BridgeEnv("error", "RuntimeError"))]
         /\ Goto(ws, "recv")
         /\ UNCHANGED <<upQ, upRecv, upWaiter, sessions>>
    ELSE
    LET q == upQ[u]
        k == FirstTerminal(q)
        taken == IF k > 0 THEN SubSeq(q, 1, k) ELSE q
        rest == IF k > 0 THEN SubSeq(q, k + 1, Len(q)) ELSE <<>>
    IN  IF ok
        THEN /\ upQ' = [upQ EXCEPT ![u] = rest]
             /\ upRecv' = [upRecv EXCEPT ![u] = @ \o RecvBy(taken, "inline")]
             /\ UNCHANGED sessions
             /\ IF k > 0
                THEN /\ sent' = [sent EXCEPT ![ws] = @ \o ForwardInOrder(taken)]
                     /\ upWaiter' = [upWaiter EXCEPT ![u] = "none"]
                     /\ Goto(ws, "recv")
                ELSE IF UpClosed(u)
                THEN \* recv() raises ConnectionClosed: error envelope, break
                     /\ sent' = [sent EXCEPT ![ws] = (@ \o ForwardInOrder(taken))
                                    \o <<BridgeEnv("error", "ConnectionClosed")>>]
                     /\ upWaiter' = [upWaiter EXCEPT ![u] = "none"]
                     /\ Goto(ws, "recv")
                ELSE /\ sent' = [sent EXCEPT ![ws] = @ \o ForwardInOrder(taken)]
                     /\ upWaiter' = [upWaiter EXCEPT ![u] = "ep"]
                     /\ Goto(ws, "inline")
        ELSE \* the send to the client raises, and so does the one of the handler
             \* at line 223: the exception reaches line 275
             /\ upQ' = [upQ EXCEPT ![u] = IF q = <<>> THEN q ELSE Tail(q)]
             /\ upRecv' = [upRecv EXCEPT ![u] =
                    IF q = <<>> THEN @ ELSE Append(@, [env |-> Head(q), by |-> "inline"])]
             /\ upWaiter' = [upWaiter EXCEPT ![u] = "none"]
             /\ UNCHANGED sent
             /\ CallDisconnect(ws, "done", sessions)

CanRead(ws) == app = "simple" /\ pc[ws] = "recv" /\ accepted[ws] /\ ~clientGone[ws]
                 /\ nframes < cfg.maxFrames

ReadFrame(ws, frame) ==
    /\ lastFrame' = Read(ws, frame, <<>>)
    /\ nframes' = nframes + 1

\* Handling msg on ws reaches get_relevant_context (line 205, rag_service line 98).
Retrieves(ws, msg) ==
    /\ msg.type = "conversation.item.create"
    /\ ws \in DOMAIN openai_connections
    /\ "session" \in DOMAIN msg \/ ws \in DOMAIN sessions
    /\ UserMessage(msg) # ""

\* receive_text raises: WebSocketDisconnect, or RuntimeError on a socket that
\* was never accepted (lines 272-278).
SimpleRecvError(ws) ==
    /\ app = "simple" /\ pc[ws] = "recv" /\ (~accepted[ws] \/ clientGone[ws])
    /\ CallDisconnect(ws, "done", sessions)
    /\ UNCHANGED <<wsVars, handlerVars, app, cfg, accepted, closeCode, requested, clientGone, sent, lastFrame, nframes,
                   mockVars, openai_connections, fwd, fwdLate, opened,
                   upQ, upWaiter, upRemoteClosed, upSent, upRecv, nUp>>

\* A text frame that is not JSON: json.loads raises JSONDecodeError, line 270
\* calls send_message("Invalid message format").
SimpleRecvInvalid(ws) ==
    /\ CanRead(ws)
    /\ ReadFrame(ws, InvalidJson)
    /\ IF ws \in DOMAIN sessions
       THEN LET u == openai_connections[ws] IN
            IF UpClosed(u)
            THEN \* send raises; send_message's handler disconnects, the loop goes on
                 /\ CallDisconnect(ws, "recv", sessions)
                 /\ UNCHANGED <<sent, upSent>>
            ELSE /\ upSent' = [upSent EXCEPT ![u] =
                        Append(@, SendMessageEnv("Invalid message format", sessions[ws]))]
                 /\ Goto(ws, "recv")
                 /\ UNCHANGED <<sent, sessions>>
       ELSE /\ sent' = [sent EXCEPT ![ws] = Append(@, BridgeEnv("error", "No active session"))]
            /\ Goto(ws, "recv")
            /\ UNCHANGED <<sessions, upSent>>
    /\ UNCHANGED <<wsVars, handlerVars, app, cfg, accepted, closeCode, requested, clientGone, mockVars, openai_connections,
                   fwd, fwdLate, opened, upQ, upWaiter, upRemoteClosed, upRecv, nUp>>

\* JSON that is not an object: message_data.get raises AttributeError, which
\* only the handler of line 275 catches.
SimpleRecvNonObject(ws) ==
    /\ CanRead(ws)
    /\ ReadFrame(ws, NonObject)
    /\ CallDisconnect(ws, "done", sessions)
    /\ UNCHANGED <<wsVars, handlerVars, app, cfg, accepted, closeCode, requested, clientGone, sent, mockVars,
                   openai_connections, fwd, fwdLate, opened,
                   upQ, upWaiter, upRemoteClosed, upSent, upRecv, nUp>>

\* ping, and types the endpoint has no branch for (lines 195-196).
SimpleRecvOther(ws) ==
    /\ CanRead(ws)
    /\ \E msg \in SimpleOthers :
         /\ ReadFrame(ws, Obj(msg))
         /\ sent' = [sent EXCEPT ![ws] =
                IF msg.type = "ping" THEN Append(@, BridgeEnv("pong", "")) ELSE @]
    /\ Goto(ws, "recv")
    /\ UNCHANGED <<wsVars, handlerVars, app, cfg, accepted, closeCode, requested, clientGone, mockVars, openai_connections,
                   sessions, fwd, fwdLate, opened, upVars>>

\* conversation.item.create and response.create (lines 197-266).
SimpleRecvRequest(ws) ==
    /\ CanRead(ws)
    /\ \E msg \in SimpleRequests :
       \E context \in (IF Retrieves(ws, msg) THEN Passages ELSE {<<>>}) :
         /\ lastFrame' = Read(ws, Obj(msg), context)
         /\ nframes' = nframes + 1
         /\ IF ws \notin DOMAIN openai_connections
            THEN /\ Goto(ws, "recv")
                 /\ UNCHANGED <<sent, sessions, upQ, upWaiter, upSent, upRecv>>
            ELSE LET u == openai_connections[ws] IN
                 IF ("session" \notin DOMAIN msg /\ ws \notin DOMAIN sessions) \/ UpClosed(u)
                 THEN \* KeyError on manager.sessions[websocket], or send raises
                      /\ CallDisconnect(ws, "done", sessions)
                      /\ UNCHANGED <<sent, upQ, upWaiter, upSent, upRecv>>
                 ELSE /\ upSent' = [upSent EXCEPT ![u] = Append(@,
                             UpstreamRequest(msg, DictGet(sessions, ws, ""), context))]
                      /\ InlineLoop(ws, u, TRUE, TRUE)
    /\ UNCHANGED <<wsVars, handlerVars, app, cfg, accepted, closeCode, requested, clientGone, mockVars, openai_connections,
                   fwd, fwdLate, opened, upRemoteClosed, nUp>>

\* The inline loop resumes from recv().
SimpleInlineWake(ws) ==
    /\ app = "simple" /\ pc[ws] = "inline"
    /\ LET u == openai_connections[ws] IN
       /\ upQ[u] # <<>> \/ UpClosed(u)
       /\ \E ok \in SendOutcomes(ws) : InlineLoop(ws, u, ok, FALSE)
    /\ UNCHANGED <<wsVars, handlerVars, app, cfg, accepted, closeCode, requested, clientGone, lastFrame, nframes, mockVars,
                   openai_connections, fwd, fwdLate, opened, upRemoteClosed, upSent, nUp>>

\* forward_responses (lines 90-115), from its start or from recv() until it
\* suspends in recv() again or ends.  It reads the socket connect opened.
FwdRun(ws) ==
    /\ app = "simple"
    /\ LET u == opened[ws]
           late(n) == fwdLate' = [fwdLate EXCEPT ![ws] = @ + (IF discDone[ws] THEN n ELSE 0)]
       IN
       /\ \/ fwd[ws] = "created"
          \/ fwd[ws] = "waiting" /\ (upQ[u] # <<>> \/ UpClosed(u))
       /\ \E ok \in (IF pc[ws] = "done" THEN {TRUE, FALSE} ELSE SendOutcomes(ws)) :
            IF fwd[ws] = "created" /\ upWaiter[u] = "ep"
            THEN \* the endpoint is suspended in recv(): recv() raises RuntimeError
                 /\ sent' = [sent EXCEPT ![ws] =
                        IF ok THEN Append(@, BridgeEnv("error", "Response forwarding error"))
                        ELSE @]
                 /\ fwd' = [fwd EXCEPT ![ws] = "ended"]
                 /\ late(1)
                 /\ UNCHANGED <<upQ, upRecv, upWaiter>>
            ELSE IF ok
            THEN /\ upQ' = [upQ EXCEPT ![u] = <<>>]
                 /\ upRecv' = [upRecv EXCEPT ![u] = @ \o RecvBy(upQ[u], "fwd")]
                 /\ IF UpClosed(u)
                    THEN /\ sent' = [sent EXCEPT ![ws] = (@ \o ForwardInOrder(upQ[u]))
                                \o <<BridgeEnv("error", "Response forwarding error")>>]
                         /\ fwd' = [fwd EXCEPT ![ws] = "ended"]
                         /\ upWaiter' = [upWaiter EXCEPT ![u] = "none"]
                         /\ late(Len(upQ[u]) + 1)
                    ELSE /\ sent' = [sent EXCEPT ![ws] = @ \o ForwardInOrder(upQ[u])]
                         /\ fwd' = [fwd EXCEPT ![ws] = "waiting"]
                         /\ upWaiter' = [upWaiter EXCEPT ![u] = "fwd"]
                         /\ late(Len(upQ[u]))
            ELSE IF upQ[u] = <<>> /\ ~UpClosed(u)
            THEN \* nothing to read yet: suspend in recv()
                 /\ fwd' = [fwd EXCEPT ![ws] = "waiting"]
                 /\ upWaiter' = [upWaiter EXCEPT ![u] = "fwd"]
                 /\ UNCHANGED <<sent, upQ, upRecv, fwdLate>>
            ELSE \* the send raises, and so does the one of the handler: the task dies
                 /\ upQ' = [upQ EXCEPT ![u] = IF @ = <<>> THEN @ ELSE Tail(@)]
                 /\ upRecv' = [upRecv EXCEPT ![u] =
                        IF upQ[u] = <<>> THEN @ ELSE Append(@, [env |-> Head(upQ[u]), by |-> "fwd"])]
                 /\ fwd' = [fwd EXCEPT ![ws] = "ended"]
                 /\ upWaiter' = [upWaiter EXCEPT ![u] = "none"]
                 /\ late(IF upQ[u] = <<>> THEN 1 ELSE 2)
                 /\ UNCHANGED sent
    /\ UNCHANGED <<wsVars, handlerVars, app, cfg, pc, accepted, closeCode, requested, clientGone, lastFrame, nframes,
                   disconnects, disconnectRaised, mockVars, active_connections,
                   openai_connections, sessions, discNext, discDone, opened,
                   upRemoteClosed, upCloseCalls, upSent, nUp>>

\* ---------------------------------------------------------- environment
\* The client goes away.
ClientDisconnect(ws) ==
    /\ app # "mock" /\ accepted[ws] /\ ~clientGone[ws] /\ pc[ws] # "done"
    /\ clientGone' = [clientGone EXCEPT ![ws] = TRUE]
    /\ UNCHANGED <<wsVars, handlerVars, app, cfg, pc, accepted, closeCode, requested, sent, lastFrame, nframes, disconnects,
                   disconnectRaised, mockVars, simpleVars, upVars>>

IsOpened(u) == \E w \in WS : opened[w] = u

\* The upstream service emits an envelope on socket u.
UpstreamSend(u) ==
    /\ app # "mock" /\ IsOpened(u) /\ ~UpClosed(u) /\ nUp < cfg.maxUp
    /\ \E t \in (IF app = "ws" THEN WsUpTypes ELSE UpTypes) :
         upQ' = [upQ EXCEPT ![u] = Append(@, [type |-> t, id |-> nUp + 1])]
    /\ nUp' = nUp + 1
    /\ UNCHANGED <<wsVars, handlerVars, commonVars, mockVars, simpleVars, upWaiter, upRemoteClosed,
                   upCloseCalls, upSent, upRecv>>

\* The upstream service closes the connection, or the connection fails.
UpstreamFail(u) ==
    /\ app # "mock" /\ IsOpened(u) /\ ~UpClosed(u)
    /\ upRemoteClosed' = [upRemoteClosed EXCEPT ![u] = TRUE]
    /\ UNCHANGED <<wsVars, handlerVars, commonVars, mockVars, simpleVars, upQ, upWaiter, upCloseCalls,
                   upSent, upRecv, nUp>>

\* Steps of the bridge that need nothing further from client or upstream.
BridgeNext ==
    \E ws \in WS :
        \/ SimpleRecvError(ws)
        \/ SimpleHandshakeAck(ws)
        \/ SimpleInlineWake(ws)
        \/ DisconnectFinish(ws)
        \/ FwdRun(ws)

SimpleNext ==
    \/ BridgeNext
    \/ \E ws \in WS :
        \/ SimpleConnect(ws)
        \/ SimpleUpstreamOpen(ws)
        \/ SimpleRecvInvalid(ws)
        \/ SimpleRecvNonObject(ws)
        \/ SimpleRecvOther(ws)
        \/ SimpleRecvRequest(ws)
        \/ ClientDisconnect(ws)
    \/ \E u \in UP :
        \/ UpstreamSend(u)
        \/ UpstreamFail(u)

\* =========================================================================
\*  websocket.py
\* =========================================================================
\* No module imports websocket.py: main.py routes websocket_simple and
\* routes/__init__.py imports websocket_mock. The word `python` at column 0 of
\* line 28 ends the class statement before its methods; lines 29-248 are read
\* as the methods of ConnectionManager that their `self` parameter makes them.

\* Variables no step of websocket.py or websocket_handler.py touches.
simpleOnly == <<active_connections, openai_connections, sessions, fwd, discNext,
                discDone, fwdLate>>
wsOther == <<app, cfg, requested, disconnects, disconnectRaised, mockVars, simpleOnly,
             handlerVars>>
handlerOther == <<app, cfg, requested, disconnects, disconnectRaised, mockVars,
                  simpleOnly, wsVars>>

\* The first client message connect reads (line 38).
WsFirstFrames ==
    {InvalidJson, NonObject, Obj([type |-> "session.create"]), Obj([type |-> "ping"]),
     Obj(EmptyDict)}

\* str(uuid.uuid4())   (line 34)
WsSessionId(ws) == <<"uuid4", ws>>

\* Lines 40-44 on the first client message: the exception raised, or "proceed".
FirstMessageOutcome(frame) ==
    IF frame.json = "invalid" THEN "JSONDecodeError"
    ELSE IF frame.json = "nonobject" THEN "AttributeError"
    ELSE IF DictGet(frame.msg, "type", "none") # "session.create" THEN "ValueError"
    ELSE "proceed"

\* The client-facing type handle_openai_responses gives an upstream envelope
\* of type t (lines 311-340).
ClientFacingType(t) == IF t = "response.end" THEN "response.completed" ELSE t

\* An exception inside the try of line 37: the handlers of lines 116-133 send an
\* error envelope, close the client socket with `code` and return, and
\* websocket_endpoint goes on to create its response task (line 257) and to
\* enter its loop. Neither handler touches a registry or the upstream socket.
\* When the send raises (the client is gone), the handler of lines 135-139
\* removes the websocket from active_connections and re-raises; the call of
\* line 254 is outside the endpoint's try, so the endpoint ends there.
WsFail(ws, error, code) ==
    \E ok \in SendOutcomes(ws) :
        IF ok
        THEN /\ sent' = [sent EXCEPT ![ws] = Append(@, BridgeEnv("error", error))]
             /\ closeCode' = [closeCode EXCEPT ![ws] = code]
             /\ response_task' = [response_task EXCEPT ![ws] = "created"]
             /\ pc' = [pc EXCEPT ![ws] = "w_loop"]
             /\ UNCHANGED w_active_connections
        ELSE /\ w_active_connections' = SeqRemove(w_active_connections, ws)
             /\ pc' = [pc EXCEPT ![ws] = "done"]
             /\ UNCHANGED <<sent, closeCode, response_task>>

\* websocket_endpoint calls connect, which runs up to `await
\* websocket.receive_text()` (lines 254, 29-38).
WsConnect(ws) ==
    /\ app = "ws" /\ ws \in cfg.clients /\ pc[ws] = "new"
    /\ accepted' = [accepted EXCEPT ![ws] = TRUE]
    /\ w_active_connections' = Append(w_active_connections, ws)
    /\ session_ids' = DictSet(session_ids, ws, WsSessionId(ws))
    /\ pc' = [pc EXCEPT ![ws] = "w_first"]
    /\ UNCHANGED <<wsOther, closeCode, clientGone, sent, lastFrame, nframes,
                   openai_ws_connections, response_task, opened, upVars>>

\* connect reads the first client message (lines 38-47, 116-133).
WsFirstMessage(ws) ==
    /\ app = "ws" /\ pc[ws] = "w_first" /\ ~clientGone[ws] /\ nframes < cfg.maxFrames
    /\ \E frame \in WsFirstFrames :
         /\ ReadFrame(ws, frame)
         /\ LET o == FirstMessageOutcome(frame) IN
            IF o = "proceed"
            THEN /\ pc' = [pc EXCEPT ![ws] = "w_open"]
                 /\ UNCHANGED <<sent, closeCode, response_task, w_active_connections>>
            ELSE IF o = "JSONDecodeError"
                 THEN WsFail(ws, "Invalid message format", 1003)
                 ELSE WsFail(ws, "Session creation failed", 1011)
    /\ UNCHANGED <<wsOther, accepted, clientGone, openai_ws_connections, session_ids,
                   opened, upVars>>

\* The client is gone: receive_text raises WebSocketDisconnect, which the
\* handler of line 125 takes.
WsFirstError(ws) ==
    /\ app = "ws" /\ pc[ws] = "w_first" /\ clientGone[ws]
    /\ WsFail(ws, "Session creation failed", 1011)
    /\ UNCHANGED <<wsOther, accepted, clientGone, lastFrame, nframes,
                   openai_ws_connections, session_ids, opened, upVars>>

\* `await websockets.connect(...)` returns or raises (lines 49-58). When it
\* returns, the socket is registered and the dict display of lines 61-83 is
\* evaluated: its entry `"stream": true` names an undefined variable, so
\* NameError is raised before anything is sent upstream, and lines 84-114 are
\* never reached. Either way the handler of line 125 runs.
WsUpstreamOpen(ws) ==
    /\ app = "ws" /\ pc[ws] = "w_open"
    /\ \E success \in BOOLEAN :
         IF success
         THEN LET u == NewUpstream IN
              /\ openai_ws_connections' = DictSet(openai_ws_connections, ws, u)
              /\ opened' = [opened EXCEPT ![ws] = u]
         ELSE UNCHANGED <<openai_ws_connections, opened>>
    /\ WsFail(ws, "Session creation failed", 1011)
    /\ UNCHANGED <<wsOther, accepted, clientGone, lastFrame, nframes, session_ids, upVars>>

\* The endpoint's loop after connect returned: every return of connect follows
\* websocket.close(), so receive() (line 263) delivers the websocket.disconnect
\* message, which line 264 ignores, or raises RuntimeError at once when the
\* disconnect was already seen; every later receive() raises RuntimeError. The
\* handler of lines 285-292 takes it (receive() never raises
\* WebSocketDisconnect), its send_message swallows the failure of the send
\* (lines 154-157), and the loop goes round again: at "w_spin" the endpoint
\* iterates without changing any state and never reaches lines 294-304.
WsLoopReceive(ws) ==
    /\ app = "ws" /\ pc[ws] = "w_loop"
    /\ pc' = [pc EXCEPT ![ws] = "w_spin"]
    /\ UNCHANGED <<wsOther, wsVars, accepted, closeCode, clientGone, sent, lastFrame,
                   nframes, opened, upVars>>

\* The task of line 257 runs handle_openai_responses: line 309 calls
\* receive_openai_response without its client_ws argument, the TypeError is
\* caught at line 342 and the task ends without having read or sent anything.
WsResponseTask(ws) ==
    /\ app = "ws" /\ response_task[ws] = "created"
    /\ response_task' = [response_task EXCEPT ![ws] = "ended"]
    /\ UNCHANGED <<wsOther, w_active_connections, openai_ws_connections, session_ids,
                   pc, accepted, closeCode, clientGone, sent, lastFrame, nframes,
                   opened, upVars>>

\* ---- forward_audio
AudioInputs == {"AAA", "BBB"}

\* base64.b64encode(audio_data).decode('utf-8')
B64(audio) == <<"b64", audio>>

\* whisper_model.transcribe (line 169) returns the text or raises.
Transcriptions == {"raises", "what is x"}

\* RAGManager.query_documents (rag_manager.py lines 62-79): no documents when
\* there is no vector store or the search raises, else the documents found.
QueryOutcomes == {"no_store", "raises", "found"}
query_documents(outcome) == IF outcome = "found" THEN <<"doc1", "doc2">> ELSE <<>>

\* The two envelopes of lines 181-196; context stands for the joined contents.
AudioEnvelope(audio) == [type |-> "audio", data |-> B64(audio)]
TextEnvelope(context, text) == [type |-> "text", context |-> context, query |-> text]

\* send_message (lines 152-157): sends only to a registered websocket, and
\* swallows the exception of a send on a closed socket.
WsSendMessage(ws, env) ==
    IF SeqContains(w_active_connections, ws) /\ closeCode[ws] = 0 /\ ~clientGone[ws]
    THEN Append(sent[ws], env)
    ELSE sent[ws]

\* A call forward_audio(audio, ws) (lines 159-216) on the manager, with the
\* outcomes t of the transcription and q of the retrieval.
WsForwardAudio(ws) ==
    /\ app = "ws" /\ pc[ws] \in {"w_loop", "w_spin"} /\ nframes < cfg.maxFrames
    /\ \E audio \in AudioInputs, t \in Transcriptions, q \in QueryOutcomes :
         /\ lastFrame' = Read(ws, [json |-> "binary", audio |-> audio,
                                   transcription |-> t, query |-> q], <<>>)
         /\ nframes' = nframes + 1
         /\ IF ws \notin DOMAIN openai_ws_connections
            THEN UNCHANGED <<sent, upSent>>
            ELSE LET u == openai_ws_connections[ws] IN
                 IF t = "raises" \/ UpClosed(u)
                 THEN /\ sent' = [sent EXCEPT ![ws] = WsSendMessage(ws,
                                      BridgeEnv("error", "Error processing audio"))]
                      /\ UNCHANGED upSent
                 ELSE /\ upSent' = [upSent EXCEPT ![u] =
                              @ \o <<AudioEnvelope(audio),
                                     TextEnvelope(query_documents(q), t)>>]
                      /\ sent' = [sent EXCEPT ![ws] = WsSendMessage(ws,
                                      BridgeEnv("transcription", t))]
    /\ UNCHANGED <<wsOther, wsVars, pc, accepted, closeCode, clientGone, opened,
                   upQ, upWaiter, upRemoteClosed, upCloseCalls, upRecv, nUp>>

\* Steps of websocket.py that need nothing further from client or upstream.
WsBridgeNext ==
    \E ws \in WS :
        \/ WsFirstError(ws)
        \/ WsUpstreamOpen(ws)
        \/ WsLoopReceive(ws)
        \/ WsResponseTask(ws)

WsNext ==
    \/ WsBridgeNext
    \/ \E ws \in WS :
        \/ WsConnect(ws)
        \/ WsFirstMessage(ws)
        \/ ClientDisconnect(ws)
    \/ \E u \in UP :
        \/ UpstreamSend(u)
        \/ UpstreamFail(u)

\* websocket.py with forward_audio called on its manager.
WsCallsNext == WsNext \/ \E ws \in WS : WsForwardAudio(ws)

\* =========================================================================
\*  backend/websocket_handler.py and backend/app.py
\* =========================================================================

\* Python values in the "text" slot of an ASGI message: a string or None.
None == [k |-> "none", s |-> ""]

HandlerFrames ==
    {[kind |-> "binary", bytes |-> a] : a \in AudioInputs}
    \cup {[kind |-> "text", text |-> t] : t \in {"hello", "input_audio_buffer.commit"}}

\* What `await websocket.receive()` returns (line 56): the ASGI message, of type
\* "websocket.receive" with the payload under "bytes" or "text", or of type
\* "websocket.disconnect". The key of the other kind is missing or None,
\* depending on the server.
AsgiMessage(frame, noneText) ==
    IF frame.kind = "binary"
    THEN IF noneText
         THEN [type |-> "websocket.receive", bytes |-> frame.bytes, text |-> None]
         ELSE [type |-> "websocket.receive", bytes |-> frame.bytes]
    ELSE IF frame.kind = "text"
         THEN [type |-> "websocket.receive", text |-> Str(frame.text)]
         ELSE [type |-> "websocket.disconnect"]

InitMessage == [type |-> "response.create"]
AppendEnvelope(audio, context) ==
    [type |-> "input_audio_buffer.append", audio |-> B64(audio), context |-> context]
RawText(text) == [type |-> "raw", text |-> text]

\* What the inner forward_to_openai sends upstream for the message `data`
\* (lines 58-75).
ToUpstream(data, context) ==
    IF data.type = "bytes"
    THEN AppendEnvelope(data.bytes, context)
    ELSE RawText(DictGet(data, "text", Str("")))

\* openai_ws.send(None) raises TypeError.
Sendable(out) == out.type # "raw" \/ out.text # None

\* What rag_processor.get_relevant_context returns (line 62).
HandlerContexts == {"", "context"}

\* WebSocketHandler.disconnect (lines 21-22).
HandlerDisconnectKeeps(active, ws) == active
HandlerDisconnect(active, ws) == SeqRemove(active, ws)

\* websocket_endpoint of backend/app.py (lines 84-102): connect accepts and
\* registers the websocket; line 92 calls ws_handler.set_rag_processor, which
\* WebSocketHandler does not define, so AttributeError is caught at line 96,
\* forward_to_openai is not called, and the finally removes the websocket and
\* closes it.
AppEndpoint(ws) ==
    /\ app = "handler" /\ ws \in cfg.clients /\ pc[ws] = "new"
    /\ accepted' = [accepted EXCEPT ![ws] = TRUE]
    /\ h_active_connections' =
           HandlerDisconnect(Append(h_active_connections, ws), ws)
    /\ closeCode' = [closeCode EXCEPT ![ws] = 1000]
    /\ pc' = [pc EXCEPT ![ws] = "done"]
    /\ UNCHANGED <<handlerOther, to_client_task, to_openai_task, clientGone, sent,
                   lastFrame, nframes, opened, upVars>>

\* connect(websocket) and then forward_to_openai(websocket) called on the
\* handler (lines 17-19, 24-33), the calls of app.py lines 89 and 95, up to
\* `await websockets.connect(...)`.
HandlerConnect(ws) ==
    /\ app = "handler" /\ ws \in cfg.clients /\ pc[ws] = "new"
    /\ accepted' = [accepted EXCEPT ![ws] = TRUE]
    /\ h_active_connections' = Append(h_active_connections, ws)
    /\ pc' = [pc EXCEPT ![ws] = "h_open"]
    /\ UNCHANGED <<handlerOther, to_client_task, to_openai_task, closeCode, clientGone,
                   sent, lastFrame, nframes, opened, upVars>>

\* websockets.connect returns: the init message is sent and gather starts the
\* two coroutines (lines 33-83); or it raises (lines 87-90).
HandlerUpstreamOpen(ws) ==
    /\ app = "handler" /\ pc[ws] = "h_open"
    /\ \E success \in BOOLEAN :
         IF success
         THEN LET u == NewUpstream IN
              /\ opened' = [opened EXCEPT ![ws] = u]
              /\ upSent' = [upSent EXCEPT ![u] = <<InitMessage>>]
              /\ to_client_task' = [to_client_task EXCEPT ![ws] = "running"]
              /\ to_openai_task' = [to_openai_task EXCEPT ![ws] = "running"]
              /\ pc' = [pc EXCEPT ![ws] = "h_gather"]
              /\ UNCHANGED h_active_connections
         ELSE /\ h_active_connections' =
                    IF SeqContains(h_active_connections, ws)
                    THEN HandlerDisconnect(h_active_connections, ws)
                    ELSE h_active_connections
              /\ pc' = [pc EXCEPT ![ws] = "done"]
              /\ UNCHANGED <<opened, upSent, to_client_task, to_openai_task>>
    /\ UNCHANGED <<handlerOther, accepted, closeCode, clientGone, sent, lastFrame,
                   nframes, upQ, upWaiter, upRemoteClosed, upCloseCalls, upRecv, nUp>>

\* The inner forward_to_openai receives a client frame (lines 56-75). A send on
\* a closed upstream socket raises ConnectionClosed, send(None) raises
\* TypeError; neither is caught at line 76.
HandlerReceive(ws) ==
    /\ app = "handler" /\ to_openai_task[ws] = "running" /\ ~clientGone[ws]
    /\ nframes < cfg.maxFrames
    /\ \E frame \in HandlerFrames, noneText \in BOOLEAN, context \in HandlerContexts :
         LET out == ToUpstream(AsgiMessage(frame, noneText), context)
             u == opened[ws]
         IN  /\ lastFrame' = Read(ws, frame, <<>>)
             /\ nframes' = nframes + 1
             /\ IF UpClosed(u) \/ ~Sendable(out)
                THEN /\ to_openai_task' = [to_openai_task EXCEPT ![ws] = "raised"]
                     /\ UNCHANGED upSent
                ELSE /\ upSent' = [upSent EXCEPT ![u] = Append(@, out)]
                     /\ UNCHANGED to_openai_task
    /\ UNCHANGED <<handlerOther, h_active_connections, to_client_task, pc, accepted,
                   closeCode, clientGone, sent, opened,
                   upQ, upWaiter, upRemoteClosed, upCloseCalls, upRecv, nUp>>

\* The client is gone: receive() returns the websocket.disconnect message, the
\* else branch of line 73 sends its missing "text" upstream, and the next
\* receive() raises RuntimeError, which line 76 does not catch.
HandlerReceiveDisconnect(ws) ==
    /\ app = "handler" /\ to_openai_task[ws] = "running" /\ clientGone[ws]
    /\ LET out == ToUpstream(AsgiMessage([kind |-> "disconnect"], FALSE), "")
           u == opened[ws]
       IN  upSent' = IF UpClosed(u) THEN upSent
                     ELSE [upSent EXCEPT ![u] = Append(@, out)]
    /\ to_openai_task' = [to_openai_task EXCEPT ![ws] = "raised"]
    /\ UNCHANGED <<handlerOther, h_active_connections, to_client_task, pc, accepted,
                   closeCode, clientGone, sent, lastFrame, nframes, opened,
                   upQ, upWaiter, upRemoteClosed, upCloseCalls, upRecv, nUp>>

\* How websocket.send_text to ws ends: normally while the client is connected;
\* once it is gone the send is dropped, raises WebSocketDisconnect (caught at
\* line 50) or raises another exception.
SendTextOutcomes(ws) ==
    IF clientGone[ws] THEN {"running", "returned", "raised"} ELSE {"running"}

\* forward_to_client (lines 45-51): recv() returns the next upstream message,
\* which is sent to the client as received, or raises ConnectionClosed once the
\* upstream connection is closed and drained.
HandlerToClient(ws) ==
    /\ app = "handler" /\ to_client_task[ws] = "running"
    /\ LET u == opened[ws] IN
       \/ /\ upQ[u] # <<>>
          /\ upQ' = [upQ EXCEPT ![u] = Tail(@)]
          /\ upRecv' = [upRecv EXCEPT ![u] = Append(@, [env |-> Head(upQ[u]), by |-> "fwd"])]
          /\ \E o \in SendTextOutcomes(ws) :
               /\ to_client_task' = [to_client_task EXCEPT ![ws] = o]
               /\ sent' = IF o = "running"
                          THEN [sent EXCEPT ![ws] = Append(@, Forwarded(Head(upQ[u])))]
                          ELSE sent
       \/ /\ upQ[u] = <<>> /\ UpClosed(u)
          /\ to_client_task' = [to_client_task EXCEPT ![ws] = "raised"]
          /\ UNCHANGED <<upQ, upRecv, sent>>
    /\ UNCHANGED <<handlerOther, h_active_connections, to_openai_task, pc, accepted,
                   closeCode, clientGone, lastFrame, nframes, opened,
                   upWaiter, upRemoteClosed, upCloseCalls, upSent, nUp>>

\* gather (lines 80-83) re-raises the first exception of either coroutine and
\* leaves the other one running; the `async with` of line 33 then closes the
\* upstream connection.
HandlerGatherRaise(ws) ==
    /\ app = "handler" /\ pc[ws] = "h_gather"
    /\ to_client_task[ws] = "raised" \/ to_openai_task[ws] = "raised"
    /\ upCloseCalls' = [upCloseCalls EXCEPT ![opened[ws]] = @ + 1]
    /\ pc' = [pc EXCEPT ![ws] = "h_exit"]
    /\ UNCHANGED <<handlerOther, handlerVars, accepted, closeCode, clientGone, sent,
                   lastFrame, nframes, opened,
                   upQ, upWaiter, upRemoteClosed, upSent, upRecv, nUp>>

\* close() returned; the exception reaches lines 85-90.
HandlerExit(ws) ==
    /\ app = "handler" /\ pc[ws] = "h_exit"
    /\ h_active_connections' =
           IF SeqContains(h_active_connections, ws)
           THEN HandlerDisconnect(h_active_connections, ws)
           ELSE h_active_connections
    /\ pc' = [pc EXCEPT ![ws] = "done"]
    /\ UNCHANGED <<handlerOther, to_client_task, to_openai_task, accepted, closeCode,
                   clientGone, sent, lastFrame, nframes, opened, upVars>>

\* Steps of the handler that need nothing further from client or upstream.
HandlerBridgeNext ==
    \E ws \in WS :
        \/ HandlerUpstreamOpen(ws)
        \/ HandlerReceiveDisconnect(ws)
        \/ HandlerToClient(ws)
        \/ HandlerGatherRaise(ws)
        \/ HandlerExit(ws)

HandlerNext ==
    \/ HandlerBridgeNext
    \/ \E ws \in WS :
        \/ AppEndpoint(ws)
        \/ HandlerConnect(ws)
        \/ HandlerReceive(ws)
        \/ ClientDisconnect(ws)
    \/ \E u \in UP :
        \/ UpstreamSend(u)
        \/ UpstreamFail(u)

\* =========================================================================
\*  specifications
\* =========================================================================
InitCommon ==
    /\ pc = [w \in WS |-> "new"]
    /\ accepted = [w \in WS |-> FALSE]
    /\ closeCode = [w \in WS |-> 0]
    /\ requested = [w \in WS |-> NoHeader]
    /\ clientGone = [w \in WS |-> FALSE]
    /\ sent = [w \in WS |-> <<>>]
    /\ lastFrame = NoFrame
    /\ nframes = 0
    /\ disconnects = [w \in WS |-> 0]
    /\ disconnectRaised = FALSE

InitMock ==
    /\ m_active_connections = EmptyDict
    /\ m_audio_buffers = EmptyDict
    /\ m_snapshots = [w \in WS |-> <<>>]
    /\ m_appended = [w \in WS |-> <<>>]
    /\ m_rag_calls = 0
    /\ m_pending = [w \in WS |-> <<>>]

InitSimple ==
    /\ active_connections = <<>>
    /\ openai_connections = EmptyDict
    /\ sessions = EmptyDict
    /\ fwd = [w \in WS |-> "none"]
    /\ discNext = [w \in WS |-> "none"]
    /\ discDone = [w \in WS |-> FALSE]
    /\ fwdLate = [w \in WS |-> 0]
    /\ opened = [w \in WS |-> 0]
    /\ upQ = [u \in UP |-> <<>>]
    /\ upWaiter = [u \in UP |-> "none"]
    /\ upRemoteClosed = [u \in UP |-> FALSE]
    /\ upCloseCalls = [u \in UP |-> 0]
    /\ upSent = [u \in UP |-> <<>>]
    /\ upRecv = [u \in UP |-> <<>>]
    /\ nUp = 0

InitWs ==
    /\ w_active_connections = <<>>
    /\ openai_ws_connections = EmptyDict
    /\ session_ids = EmptyDict
    /\ response_task = [w \in WS |-> "none"]

InitHandler ==
    /\ h_active_connections = <<>>
    /\ to_client_task = [w \in WS |-> "none"]
    /\ to_openai_task = [w \in WS |-> "none"]

InitAll == InitCommon /\ InitMock /\ InitSimple /\ InitWs /\ InitHandler

Config(clients, maxFrames, maxUp) ==
    [clients |-> clients, maxFrames |-> maxFrames, maxUp |-> maxUp]

InitMockApp == app = "mock" /\ cfg = Config(WS, MaxFrames, 0) /\ InitAll
InitSimpleOne == app = "simple" /\ cfg = Config({1}, MaxSimpleFrames, MaxUp) /\ InitAll
InitSimpleAll == app = "simple" /\ cfg = Config(WS, MaxMultiFrames, MaxMultiUp) /\ InitAll
InitWsApp == app = "ws" /\ cfg = Config(WS, MaxWsFrames, MaxWsUp) /\ InitAll
InitHandlerApp ==
    app = "handler" /\ cfg = Config({1}, MaxHandlerFrames, MaxHandlerUp) /\ InitAll
InitSimpleTurn == app = "simple" /\ cfg = Config({1}, MaxTurnFrames, MaxUp) /\ InitAll

Init == InitMockApp \/ InitSimpleOne

Next == MockNext \/ SimpleNext

\* The routes main.py serves: a behaviour exercises one of the two managers.
Spec == Init /\ [][Next]_vars

\* The mock bridge, all clients.
SpecMock == InitMockApp /\ [][MockNext]_vars

\* The mock bridge, all clients, handlers suspending at their sends.
SpecMockAwait == InitMockApp /\ [][MockAwaitNext]_vars

\* The simple bridge, one client.
SpecSimple == InitSimpleOne /\ [][SimpleNext]_vars

\* The simple bridge, all clients, with smaller budgets.
SpecSimpleAll == InitSimpleAll /\ [][SimpleNext]_vars

\* The event loop runs every coroutine that can continue; the client and the
\* upstream service are free to stay silent.
SpecSimpleFair == SpecSimple /\ WF_vars(BridgeNext)

\* websocket.py, all clients.
SpecWs == InitWsApp /\ [][WsNext]_vars

\* websocket.py, all clients, with forward_audio called on the manager.
SpecWsCalls == InitWsApp /\ [][WsCallsNext]_vars

\* websocket.py under the scheduling of the event loop.
SpecWsFair == SpecWs /\ WF_vars(WsBridgeNext)

\* websocket_handler.py and app.py, one client.
SpecHandler == InitHandlerApp /\ [][HandlerNext]_vars

\* websocket_handler.py under the scheduling of the event loop.
SpecHandlerFair == SpecHandler /\ WF_vars(HandlerBridgeNext)

\* The simple bridge, one client, one client frame, under the same scheduling.
SpecSimpleTurnFair == InitSimpleTurn /\ [][SimpleNext]_vars /\ WF_vars(BridgeNext)

\* =========================================================================
\*  properties
\* =========================================================================

\* This step reads `frame` from client w.
IsHandled(w, frame) ==
    nframes' = nframes + 1 /\ lastFrame'.ws = w /\ lastFrame'.frame = frame

CommitFrame == Obj([type |-> "input_audio_buffer.commit"])

\* C1: mock bridge: a commit that follows appends of chunks c1..cn (n >= 1)
\* computes the audio data c1+...+cn, in append order, and leaves the session's
\* buffer empty.
C1_CommitSnapshot ==
    [][\A w \in WS :
          (/\ app = "mock"
           /\ IsHandled(w, CommitFrame)
           /\ m_appended[w] # <<>>
           /\ AllStrings(m_appended[w]))
          => /\ m_snapshots'[w] = Append(m_snapshots[w], Join(m_appended[w]))
             /\ m_audio_buffers'[MockSessionId(w)] = <<>>]_vars

\* Two chunks were appended and committed (the AAA, BBB scenario).
C1_Witness ==
    \E w \in WS :
        /\ m_snapshots[w] = <<"AAABBB">>
        /\ lastFrame = Read(w, CommitFrame, <<>>)
        /\ m_audio_buffers[MockSessionId(w)] = <<>>

\* C2: mock bridge: a commit on an empty buffer calls no collaborator, sends no
\* envelope and leaves the buffer and the output format as they were.
C2_EmptyCommitNoop ==
    [][\A w \in WS :
          (/\ app = "mock"
           /\ IsHandled(w, CommitFrame)
           /\ DictGet(m_audio_buffers, MockSessionId(w), <<>>) = <<>>)
          => /\ m_rag_calls' = m_rag_calls
             /\ sent' = sent
             /\ m_snapshots' = m_snapshots
             /\ m_audio_buffers' = m_audio_buffers
             /\ m_active_connections' = m_active_connections]_vars

\* A commit was handled right after connect: nothing but the two connect
\* envelopes was ever sent.
C2_Witness ==
    \E w \in WS :
        /\ app = "mock"
        /\ lastFrame = Read(w, CommitFrame, <<>>)
        /\ nframes = 1
        /\ Len(sent[w]) = 2
        /\ m_rag_calls = 0

\* C3: both routed endpoints: a malformed text frame (not JSON, or JSON that is
\* not an object) does not end the session: the receive loop keeps running and
\* the websocket stays registered.
C3_MalformedFrameKeepsSession ==
    [][\A w \in WS :
          (IsHandled(w, InvalidJson) \/ IsHandled(w, NonObject))
          => /\ pc'[w] \in {"loop", "recv"}
             /\ app = "mock" => w \in DOMAIN m_active_connections'
             /\ app = "simple" => SeqContains(active_connections', w)]_vars

\* C4: simple bridge: a text frame that is not JSON is answered with an `error`
\* envelope to the client, and nothing is sent upstream for it.
C4_InvalidJsonReportedNotForwarded ==
    [][\A w \in WS :
          (app = "simple" /\ IsHandled(w, InvalidJson))
          => /\ Len(sent'[w]) = Len(sent[w]) + 1
             /\ sent'[w][Len(sent'[w])].type = "error"
             /\ upSent' = upSent]_vars

SessionActive(w) ==
    /\ SeqContains(active_connections, w)
    /\ w \in DOMAIN openai_connections
    /\ w \in DOMAIN sessions

Terminated(w) ==
    /\ pc[w] = "done"
    /\ ~SeqContains(active_connections, w)
    /\ w \notin DOMAIN openai_connections
    /\ w \notin DOMAIN sessions

\* C5: simple bridge: once the upstream connection of an active session has
\* closed or failed, the session eventually is terminated, whatever the client
\* does.
C5_UpstreamCloseTerminates ==
    \A w \in WS :
        (SessionActive(w) /\ upRemoteClosed[openai_connections[w]]) ~> Terminated(w)

\* C6: both managers: disconnect for a websocket that is not registered (torn
\* down already, or never registered) changes no registry, closes no socket,
\* sends nothing and does not raise.
C6_DisconnectIdempotent ==
    [][\A w \in WS :
          (/\ disconnects'[w] = disconnects[w] + 1
           /\ IF app = "mock" THEN w \notin DOMAIN m_active_connections
              ELSE ~SeqContains(active_connections, w))
          => /\ m_active_connections' = m_active_connections
             /\ m_audio_buffers' = m_audio_buffers
             /\ active_connections' = active_connections
             /\ openai_connections' = openai_connections
             /\ sessions' = sessions
             /\ upCloseCalls' = upCloseCalls
             /\ sent' = sent
             /\ ~disconnectRaised']_vars

\* disconnect ran twice for one websocket, the second time after the first had
\* completed.
C6_Witness ==
    \E w \in WS : disconnects[w] >= 2 /\ discDone[w] /\ pc[w] = "done"

\* C7: simple bridge: when websocket_endpoint has returned, close() was called
\* exactly once on the upstream socket its connect opened; it is never called
\* more than once.
C7_UpstreamClosedOnce ==
    /\ \A u \in UP : upCloseCalls[u] <= 1
    /\ \A w \in WS :
          (app = "simple" /\ pc[w] = "done" /\ opened[w] # 0)
          => upCloseCalls[opened[w]] = 1

\* The endpoint returned after disconnect was called from two places for a
\* session that had an upstream socket.
C7_Witness ==
    \E w \in WS : pc[w] = "done" /\ opened[w] # 0 /\ disconnects[w] >= 2

\* C8: simple bridge: a client websocket is in active_connections at most once,
\* and no upstream socket is the value of two client websockets.
C8_OneSessionPerClient ==
    /\ \A i, j \in 1..Len(active_connections) :
          active_connections[i] = active_connections[j] => i = j
    /\ \A w1, w2 \in DOMAIN openai_connections :
          openai_connections[w1] = openai_connections[w2] => w1 = w2

\* Two clients are registered, each with its upstream socket.
C8_Witness ==
    /\ Len(active_connections) = 2
    /\ Cardinality(DOMAIN openai_connections) = 2

\* The ids of the upstream envelopes passed on to the client, in order.
RECURSIVE ForwardedIds(_)
ForwardedIds(out) ==
    IF out = <<>> THEN <<>>
    ELSE IF Head(out).src = "upstream"
         THEN <<Head(out).id>> \o ForwardedIds(Tail(out))
         ELSE ForwardedIds(Tail(out))

\* The ids of the envelopes recv() returned, in order; handshake: including
\* the one connect read.
RECURSIVE ReceivedIds(_, _)
ReceivedIds(rcv, handshake) ==
    IF rcv = <<>> THEN <<>>
    ELSE IF handshake \/ Head(rcv).by # "connect"
         THEN <<Head(rcv).env.id>> \o ReceivedIds(Tail(rcv), handshake)
         ELSE ReceivedIds(Tail(rcv), handshake)

ClientConnected(w) == app = "simple" /\ opened[w] # 0 /\ ~clientGone[w] /\ pc[w] # "done"

C10_NoForwardAfterDisconnect ==
    \A w \in WS : fwdLate[w] = 0


\* The subprotocols a client offered include the token `realtime`.
OffersRealtime(w) == "realtime" \in {requested[w][i] : i \in 1..Len(requested[w])}

\* connect has run for w, and w had not offered `realtime`.
Rejected(w) == pc[w] # "new" /\ ~OffersRealtime(w)

\* C11: both managers: a client that did not offer the `realtime` subprotocol is
\* never accepted, is in no registry, has no upstream socket and is sent no
\* envelope.
C11_RejectedBeforeSession ==
    \A w \in WS :
        Rejected(w)
        => /\ ~accepted[w]
           /\ sent[w] = <<>>
           /\ w \notin DOMAIN m_active_connections
           /\ MockSessionId(w) \notin DOMAIN m_audio_buffers
           /\ ~SeqContains(active_connections, w)
           /\ w \notin DOMAIN openai_connections
           /\ w \notin DOMAIN sessions
           /\ opened[w] = 0

\* A client that offered another subprotocol only was rejected, and its
\* endpoint has run to its end.
C11_Witness ==
    \E w \in WS : requested[w] = <<"chat">> /\ pc[w] = "done" /\ closeCode[w] # 0

\* C12: both managers: a client that did not offer `realtime` is closed with
\* close code 1002.
C12_RejectedWith1002 ==
    \A w \in WS : Rejected(w) => closeCode[w] = 1002

\* C13: both managers: the first envelope sent to an accepted client is
\* connection_established.
C13_ConnectionEstablishedFirst ==
    \A w \in WS :
        (accepted[w] /\ sent[w] # <<>>) => sent[w][1].type = "connection_established"

\* The output format in force for a connection record.
EffectiveFormat(conn) ==
    IF "output_format" \in DOMAIN conn
    THEN conn.output_format
    ELSE [type |-> "audio", format |-> "pcm_16", sample_rate |-> 24000, channels |-> 1]

\* C14: mock bridge: a session.update leaves every output-format field at the
\* value it supplies, or at the value the field had before when it supplies
\* none, and is answered with exactly one session.update.ack.
C14_SessionUpdateMerges ==
    [][\A w \in WS : \A f \in FormatInputs :
          (/\ app = "mock"
           /\ IsHandled(w, Obj([type |-> "session.update", output_format |-> f])))
          => LET old == EffectiveFormat(m_active_connections[w])
                 new == EffectiveFormat(m_active_connections'[w])
             IN  /\ \A k \in {"type", "format", "sample_rate", "channels"} :
                        /\ k \in DOMAIN new
                        /\ new[k] = IF k \in DOMAIN f THEN f[k]
                                    ELSE DictGet(old, k, "missing")
                 /\ Len(sent'[w]) = Len(sent[w]) + 1
                 /\ sent'[w][Len(sent'[w])].type = "session.update.ack"]_vars

ItemCreateFrame ==
    Obj([type |-> "conversation.item.create", content |-> <<[content |-> "What is X?"]>>])

\* The response.create envelopes among those a step sent to w.
NewResponses(w) ==
    {i \in (Len(sent[w]) + 1)..Len(sent'[w]) : sent'[w][i].type = "response.create"}

\* C15: mock bridge: for a session that never sent session.update, the response
\* to a conversation.item.create, and to a commit of buffered audio, carries the
\* default output format pcm_16, 24000 Hz, 1 channel.
C15_DefaultOutputFormat ==
    [][\A w \in WS :
          (/\ app = "mock"
           /\ nframes' = nframes + 1 /\ lastFrame'.ws = w
           /\ w \in DOMAIN m_active_connections
           /\ "output_format" \notin DOMAIN m_active_connections[w])
          => /\ \A i \in NewResponses(w) :
                    /\ sent'[w][i].format = "pcm_16"
                    /\ sent'[w][i].sample_rate = 24000
                    /\ sent'[w][i].channels = 1
             /\ (\/ lastFrame'.frame = ItemCreateFrame
                 \/ /\ lastFrame'.frame = CommitFrame
                    /\ m_appended[w] # <<>> /\ AllStrings(m_appended[w]))
                => NewResponses(w) # {}]_vars

\* The first frame of a session was the conversation.item.create "What is X?",
\* and it was answered with a response.create envelope.
C15_Witness ==
    \E w \in WS :
        /\ app = "mock" /\ nframes = 1
        /\ lastFrame = Read(w, ItemCreateFrame, <<>>)
        /\ \E i \in 1..Len(sent[w]) : sent[w][i].type = "response.create"

\* C16: simple bridge: when retrieval returned passages for a
\* conversation.item.create, the envelope sent upstream has as content one
\* system-role item followed by the original content items in their order.
C16_ContextPrepended ==
    [][\A w \in WS :
          (/\ app = "simple"
           /\ nframes' = nframes + 1 /\ lastFrame'.ws = w
           /\ lastFrame'.context # <<>>
           /\ upSent' # upSent)
          => LET original == lastFrame'.frame.msg.content
                 out == upSent'[openai_connections[w]]
                 content == out[Len(out)].content
             IN  /\ Len(content) = Len(original) + 1
                 /\ content[1].role = "system"
                 /\ SubSeq(content, 2, Len(content)) = original]_vars

\* A conversation.item.create of two items, the user message last, went
\* upstream with retrieved context.
C16_Witness ==
    \E w \in WS :
        /\ app = "simple" /\ opened[w] # 0
        /\ lastFrame.ws = w /\ lastFrame.context # <<>>
        /\ lastFrame.frame.msg.content = <<AssistantItem, UserItem>>
        /\ upSent[opened[w]] # <<>>
        /\ LET out == upSent[opened[w]] IN
           /\ out[Len(out)].type = "conversation.item.create"
           /\ Len(out[Len(out)].content) = 3

UnknownFrame == Obj([type |-> "unknown.type"])

\* C17: both endpoints: an envelope of a type no branch handles sends nothing
\* to the client or upstream, changes no registry, buffer or output format, and
\* leaves the endpoint in its receive loop.
C17_UnknownTypeIgnored ==
    [][\A w \in WS :
          IsHandled(w, UnknownFrame)
          => /\ sent' = sent
             /\ upSent' = upSent
             /\ m_active_connections' = m_active_connections
             /\ m_audio_buffers' = m_audio_buffers
             /\ active_connections' = active_connections
             /\ openai_connections' = openai_connections
             /\ sessions' = sessions
             /\ upCloseCalls' = upCloseCalls
             /\ pc'[w] = pc[w] /\ pc[w] \in {"loop", "recv"}]_vars

\* An active session of the simple bridge read an envelope of unknown type as
\* its second frame and is in its receive loop.
C17_Witness ==
    \E w \in WS :
        /\ app = "simple" /\ SessionActive(w)
        /\ lastFrame = Read(w, UnknownFrame, <<>>)
        /\ nframes = 2 /\ pc[w] = "recv"

\* An inline response loop of w received an `error` envelope from upstream.
ErrorMidResponse(w) ==
    /\ opened[w] # 0
    /\ \E i \in 1..Len(upRecv[opened[w]]) :
          /\ upRecv[opened[w]][i].by = "inline"
          /\ upRecv[opened[w]][i].env.type = "error"

\* C18: simple bridge: an upstream `error` envelope received during a response
\* is passed to the client exactly once, and afterwards no client envelope is
\* sent upstream on that session.
C18_UpstreamErrorDrains ==
    [][\A w \in WS :
          (app = "simple" /\ w \in DOMAIN sessions /\ ErrorMidResponse(w))
          => /\ (nframes' = nframes + 1 /\ lastFrame'.frame.json = "object")
                => upSent'[opened[w]] = upSent[opened[w]]
             /\ ClientConnected(w)
                => \A i \in 1..Len(upRecv[opened[w]]) :
                      (/\ upRecv[opened[w]][i].by = "inline"
                       /\ upRecv[opened[w]][i].env.type = "error")
                      => Cardinality({j \in 1..Len(sent[w]) :
                             sent[w][j] = Forwarded(upRecv[opened[w]][i].env)}) = 1]_vars

\* connect has ended for w without a completed handshake.
HandshakeFailed(w) ==
    /\ app = "simple" /\ accepted[w]
    /\ pc[w] \notin {"new", "c_open", "c_ack"}
    /\ fwd[w] = "none"

\* C19: simple bridge: after a failed upstream handshake the client has been
\* sent an `error` envelope, and the endpoint handles no client frame.
C19_HandshakeFailureEndsSession ==
    [][\A w \in WS :
          (HandshakeFailed(w) /\ ~clientGone[w])
          => /\ \E i \in 1..Len(sent[w]) : sent[w][i].type = "error"
             /\ ~(nframes' = nframes + 1 /\ lastFrame'.ws = w)]_vars

\* C20: simple bridge: connect does not wait for the handshake acknowledgment
\* forever: from `await openai_websocket.recv()` it eventually goes on.
C20_HandshakeWaitBounded ==
    \A w \in WS : (app = "simple" /\ pc[w] = "c_ack") ~> (pc[w] # "c_ack")


\* This step reads a conversation.item.create or response.create from client w.
IsRequest(w) ==
    /\ nframes' = nframes + 1 /\ lastFrame'.ws = w
    /\ lastFrame'.frame.json = "object"
    /\ lastFrame'.frame.msg.type \in {"conversation.item.create", "response.create"}

\* C21: simple bridge: a client request is sent upstream only when the
\* handshake was acknowledged with session.created (the websocket is in
\* sessions); otherwise nothing is sent upstream for the frame.
C21_UpstreamOnlyWhenReady ==
    [][\A w \in WS :
          (app = "simple" /\ IsRequest(w) /\ w \notin DOMAIN sessions)
          => upSent' = upSent]_vars

\* C22: simple bridge: when retrieval yields nothing for a
\* conversation.item.create, the client's envelope goes upstream with its
\* fields and content as received, without a context item, and the session
\* stays registered with the endpoint in its loop.
C22_RetrievalFailureNotFatal ==
    [][\A w \in WS :
          (/\ app = "simple" /\ IsRequest(w)
           /\ Retrieves(w, lastFrame'.frame.msg)
           /\ lastFrame'.context = <<>>
           /\ ~UpClosed(openai_connections[w]))
          => LET msg == lastFrame'.frame.msg
                 u == openai_connections[w]
                 out == upSent'[u]
             IN  /\ Len(out) = Len(upSent[u]) + 1
                 /\ \A k \in DOMAIN msg : out[Len(out)][k] = msg[k]
                 /\ \A i \in 1..Len(out[Len(out)].content) :
                        out[Len(out)].content[i].role # "system"
                 /\ pc'[w] \in {"recv", "inline"}
                 /\ active_connections' = active_connections
                 /\ openai_connections' = openai_connections
                 /\ sessions' = sessions]_vars

\* An active session sent a user message upstream for which retrieval had
\* returned nothing.
C22_Witness ==
    \E w \in WS :
        /\ app = "simple" /\ SessionActive(w)
        /\ lastFrame.ws = w /\ lastFrame.context = <<>>
        /\ lastFrame.frame.json = "object"
        /\ lastFrame.frame.msg.type = "conversation.item.create"
        /\ "content" \in DOMAIN lastFrame.frame.msg
        /\ LET out == upSent[openai_connections[w]] IN
           /\ Len(out) >= 2
           /\ out[Len(out)].type = "conversation.item.create"
           /\ out[Len(out)].content = lastFrame.frame.msg.content

\* C23: simple bridge: when disconnect removes the session of a client that
\* is still connected, an `error` envelope has been sent to that client.
C23_ErrorBeforeTeardown ==
    [][\A w \in WS :
          (/\ app = "simple"
           /\ disconnects'[w] = disconnects[w] + 1
           /\ SeqContains(active_connections, w)
           /\ ~clientGone[w])
          => \E i \in 1..Len(sent'[w]) : sent'[w][i].type = "error"]_vars

\* This step is a step of the endpoint coroutine of a.
IsActor(a) == pc'[a] # pc[a] \/ (nframes' = nframes + 1 /\ lastFrame'.ws = a)

\* C24: mock bridge: a step of session A (connect, a frame, disconnect) leaves
\* the registry entry, with its output format, and the audio buffer of every
\* other active session B unchanged.
C24_NoCrossSessionInterference ==
    [][\A a, b \in WS :
          (/\ app = "mock" /\ a # b /\ IsActor(a)
           /\ b \in DOMAIN m_active_connections)
          => /\ b \in DOMAIN m_active_connections'
             /\ m_active_connections'[b] = m_active_connections[b]
             /\ MockSessionId(b) \in DOMAIN m_audio_buffers
             /\ MockSessionId(b) \in DOMAIN m_audio_buffers'
             /\ m_audio_buffers'[MockSessionId(b)] = m_audio_buffers[MockSessionId(b)]]_vars

\* Session a has just committed while session b holds buffered audio.
C24_Witness ==
    \E a, b \in WS :
        /\ app = "mock" /\ a # b
        /\ a \in DOMAIN m_active_connections /\ b \in DOMAIN m_active_connections
        /\ lastFrame = Read(a, CommitFrame, <<>>)
        /\ m_snapshots[a] # <<>>
        /\ m_audio_buffers[MockSessionId(b)] # <<>>

RECURSIVE JoinStrings(_)
JoinStrings(strs) == IF strs = <<>> THEN "" ELSE Head(strs) \o JoinStrings(Tail(strs))

\* The audio of session w: its committed snapshots, then its buffer.
Stream(snaps, bufs, w) ==
    JoinStrings(snaps[w]) \o Join(DictGet(bufs, MockSessionId(w), <<>>))

\* The chunk this step appends for w, "" if none.
AppendedNow(w) ==
    IF /\ nframes' = nframes + 1 /\ lastFrame'.ws = w
       /\ lastFrame'.frame.json = "object"
       /\ lastFrame'.frame.msg.type = "input_audio_buffer.append"
       /\ "data" \in DOMAIN lastFrame'.frame.msg
    THEN lastFrame'.frame.msg.data.s
    ELSE ""

\* C25: mock bridge, handlers of different sessions interleaving at their
\* sends: every step extends a session's audio (snapshots, then buffer) by
\* exactly the chunk appended in that step, and the buffer holds exactly the
\* chunks appended since the last snapshot: no chunk is lost, duplicated or
\* moved to a later commit.
C25_SnapshotAndClearAtomic ==
    [][\A w \in WS :
          (/\ app = "mock"
           /\ w \in DOMAIN m_active_connections
           /\ w \in DOMAIN m_active_connections')
          => /\ Stream(m_snapshots', m_audio_buffers', w)
                    = Stream(m_snapshots, m_audio_buffers, w) \o AppendedNow(w)
             /\ m_audio_buffers'[MockSessionId(w)] = m_appended'[w]]_vars

\* Session a is suspended in the sends of a commit that took a snapshot, and
\* session b appended a chunk meanwhile.
C25_Witness ==
    \E a, b \in WS :
        /\ app = "mock" /\ a # b
        /\ m_pending[a] # <<>> /\ m_snapshots[a] # <<>>
        /\ b \in DOMAIN m_active_connections
        /\ lastFrame.ws = b
        /\ m_audio_buffers[MockSessionId(b)] # <<>>

\* C26: simple bridge: once a disconnect for an accepted websocket has
\* completed, no client frame is read for it, nothing more is sent to it, and
\* its session is not active.
C26_LifecycleForwardOnly ==
    [][\A w \in WS :
          (app = "simple" /\ accepted[w] /\ discDone[w])
          => /\ ~(nframes' = nframes + 1 /\ lastFrame'.ws = w)
             /\ sent'[w] = sent[w]
             /\ ~SeqContains(active_connections', w)]_vars

\* The types of the envelopes this step sends to w, in order.
NewTypes(w) ==
    [i \in 1..(Len(sent'[w]) - Len(sent[w])) |-> sent'[w][Len(sent[w]) + i].type]

\* C27: mock bridge: a commit on a non-empty buffer of string chunks is
\* answered with commit.ack, response.create, response.completed, one of each
\* in that order, whatever the session.update frames before it.
C27_CommitAnswered ==
    [][\A w \in WS :
          (/\ app = "mock" /\ IsHandled(w, CommitFrame)
           /\ m_appended[w] # <<>> /\ AllStrings(m_appended[w]))
          => NewTypes(w) = <<"input_audio_buffer.commit.ack",
                             "response.create", "response.completed">>]_vars

ItemCreateMsgs == {m \in MockMsgs : m.type = "conversation.item.create"}

AppendMsgs == {m \in MockMsgs : m.type = "input_audio_buffer.append"}

\* C29: mock bridge: an append is answered with exactly one append.ack, and
\* the session's buffer gets the chunk added at its end when the frame has a
\* `data` field, and is unchanged when it has none.
C29_AppendAcknowledged ==
    [][\A w \in WS : \A m \in AppendMsgs :
          (app = "mock" /\ IsHandled(w, Obj(m)))
          => /\ NewTypes(w) = <<"input_audio_buffer.append.ack">>
             /\ m_audio_buffers'[MockSessionId(w)] =
                   IF "data" \in DOMAIN m
                   THEN m_audio_buffers[MockSessionId(w)] \o <<m.data>>
                   ELSE m_audio_buffers[MockSessionId(w)]]_vars

\* An append without data was handled after an append with data.
C29_Witness ==
    \E w \in WS :
        /\ app = "mock" /\ w \in DOMAIN m_active_connections
        /\ lastFrame = Read(w, Obj([type |-> "input_audio_buffer.append"]), <<>>)
        /\ m_audio_buffers[MockSessionId(w)] = <<Str("AAA")>>
        /\ sent[w][Len(sent[w])].type = "input_audio_buffer.append.ack"

\* C30: mock bridge: a frame that handle_message answers with an `error`
\* envelope leaves the buffers and the connection record as they were, and the
\* error is the only envelope sent for the frame.
C30_FailureAtomic ==
    [][\A w \in WS :
          (/\ app = "mock"
           /\ nframes' = nframes + 1 /\ lastFrame'.ws = w
           /\ \E i \in 1..Len(NewTypes(w)) : NewTypes(w)[i] = "error")
          => /\ m_audio_buffers' = m_audio_buffers
             /\ m_active_connections' = m_active_connections
             /\ NewTypes(w) = <<"error">>]_vars


\* C31: mock bridge: the keys of audio_buffers are exactly the session ids of
\* the websockets in active_connections, and a websocket whose endpoint has
\* returned has no entry in either registry.
C31_MockRegistriesAgree ==
    \A w \in WS :
        /\ (w \in DOMAIN m_active_connections) = (MockSessionId(w) \in DOMAIN m_audio_buffers)
        /\ w \in DOMAIN m_active_connections
           => m_active_connections[w].session_id = MockSessionId(w)
        /\ (app = "mock" /\ pc[w] = "done")
           => /\ w \notin DOMAIN m_active_connections
              /\ MockSessionId(w) \notin DOMAIN m_audio_buffers

\* The endpoint of an accepted session that had buffered audio returned while
\* another session is still registered.
C31_Witness ==
    \E a, b \in WS :
        /\ app = "mock" /\ a # b
        /\ accepted[a] /\ pc[a] = "done" /\ m_appended[a] # <<>>
        /\ b \in DOMAIN m_active_connections

WsTornDown(w) ==
    /\ ~SeqContains(w_active_connections, w)
    /\ w \notin DOMAIN session_ids
    /\ w \notin DOMAIN openai_ws_connections
    /\ opened[w] # 0 => upCloseCalls[opened[w]] >= 1

\* C34: websocket.py: once the client of a websocket whose endpoint is in its
\* receive loop has disconnected, the loop ends and the teardown runs: the
\* websocket leaves active_connections, session_ids and openai_ws_connections
\* and its upstream socket is closed.
C34_ClientDisconnectTearsDown ==
    \A w \in WS :
        (app = "ws" /\ pc[w] \in {"w_loop", "w_spin"} /\ clientGone[w])
        ~> (pc[w] = "done" /\ WsTornDown(w))

\* C35: websocket.py: after a failed session creation the client has been sent
\* an error envelope and closed, the websocket is in none of the three
\* registries and the upstream socket opened for it is closed.
C35_FailedConnectLeavesNothing ==
    \A w \in WS :
        (app = "ws" /\ pc[w] \in {"w_loop", "w_spin"})
        => /\ \E i \in 1..Len(sent[w]) : sent[w][i].type = "error"
           /\ closeCode[w] # 0
           /\ WsTornDown(w)

\* C36: websocket.py: the upstream socket of a session is closed exactly once:
\* never more than once, and eventually once.
C36_UpstreamClosedExactlyOnce ==
    /\ [](app = "ws" => \A u \in UP : upCloseCalls[u] <= 1)
    /\ \A w \in WS : (app = "ws" /\ opened[w] # 0)
                     ~> (opened[w] # 0 /\ upCloseCalls[opened[w]] = 1)

\* C37: websocket.py: every upstream envelope of type error, audio, text,
\* session.created or response.end reaches the client as one envelope of type
\* error, audio, text, session.created or response.completed, and none is
\* delivered twice.
C37_UpstreamEnvelopeDeliveredOnce ==
    /\ [](app = "ws" =>
            \A w \in WS : \A i, j \in 1..Len(sent[w]) :
                (i # j /\ sent[w][i].src = "upstream" /\ sent[w][j].src = "upstream")
                => sent[w][i].id # sent[w][j].id)
    /\ \A w \in WS : \A t \in WsUpTypes :
          (/\ app = "ws" /\ opened[w] # 0
           /\ \E i \in 1..Len(upQ[opened[w]]) : upQ[opened[w]][i].type = t)
          ~> (\E j \in 1..Len(sent[w]) :
                 sent[w][j].src = "upstream" /\ sent[w][j].type = ClientFacingType(t))

\* The step is a forward_audio call for w.
AudioCall(w) ==
    /\ app = "ws" /\ nframes' = nframes + 1
    /\ lastFrame'.ws = w /\ lastFrame'.frame.json = "binary"

\* C38: websocket.py: a forward_audio call whose transcription or retrieval
\* fails, for a websocket with an open upstream socket, still sends the audio
\* upstream, with an empty context.
C38_AudioForwardedDespiteFailure ==
    [][\A w \in WS :
          (/\ AudioCall(w)
           /\ w \in DOMAIN openai_ws_connections
           /\ ~UpClosed(openai_ws_connections[w])
           /\ \/ lastFrame'.frame.transcription = "raises"
              \/ lastFrame'.frame.query # "found")
          => LET u == openai_ws_connections[w] IN
             /\ Len(upSent'[u]) = Len(upSent[u]) + 2
             /\ upSent'[u][Len(upSent[u]) + 1] = AudioEnvelope(lastFrame'.frame.audio)
             /\ upSent'[u][Len(upSent[u]) + 2].context = <<>>]_vars

\* C39: websocket_handler.py: once the client of a session whose two
\* forwarding coroutines run has disconnected, forward_to_client stops, the
\* upstream connection is closed and the websocket leaves active_connections.
C39_CoroutinesEndTogether ==
    \A w \in WS :
        (app = "handler" /\ pc[w] = "h_gather" /\ clientGone[w])
        ~> (/\ to_client_task[w] # "running"
            /\ to_openai_task[w] # "running"
            /\ opened[w] # 0 /\ upCloseCalls[opened[w]] >= 1
            /\ ~SeqContains(h_active_connections, w))

\* Both coroutines of a disconnected client have ended and the handler has
\* returned, while the upstream service neither sent anything nor closed.
C39_Witness ==
    \E w \in WS :
        /\ app = "handler" /\ clientGone[w] /\ pc[w] = "done" /\ opened[w] # 0
        /\ to_client_task[w] = "raised" /\ to_openai_task[w] = "raised"
        /\ upCloseCalls[opened[w]] = 1 /\ ~upRemoteClosed[opened[w]] /\ nUp = 0
        /\ ~SeqContains(h_active_connections, w)

\* C40: websocket_handler.py: a binary frame is sent upstream as one
\* input_audio_buffer.append envelope with the base64 audio and the context, a
\* text frame is sent upstream as it is, and the disconnect of the client
\* causes no send upstream.
C40_FramesClassifiedByKind ==
    [][\A w \in WS :
          (app = "handler" /\ to_openai_task[w] = "running" /\ ~UpClosed(opened[w]))
          => LET u == opened[w] IN
             /\ (nframes' = nframes + 1 /\ lastFrame'.ws = w)
                => IF lastFrame'.frame.kind = "binary"
                   THEN \E c \in HandlerContexts :
                          upSent'[u] = Append(upSent[u],
                                              AppendEnvelope(lastFrame'.frame.bytes, c))
                   ELSE upSent'[u] = Append(upSent[u], RawText(Str(lastFrame'.frame.text)))
             /\ (nframes' = nframes /\ clientGone[w])
                => upSent'[u] = upSent[u]]_vars

====
